---------------------------- MODULE Spec2Model ----------------------------
(***************************************************************************)
(* HamroNepal: the Bikram Sambat (BS) <-> Gregorian (AD) date engine.      *)
(*                                                                         *)
(* The converter functions are those of the bs-date package core           *)
(* (src/unnamed/part_001); the calendar table and the reference anchor are *)
(* the copy the web library carries (src/unnamed/part_012), the only copy  *)
(* of BS_CALENDAR_DATA / BS_REFERENCE / AD_REFERENCE in the sources.       *)
(* The formatters are those of src/packages/bs-date/src/format.ts.         *)
(*                                                                         *)
(* A JavaScript Date is modelled as a whole number of seconds on the local *)
(* time line (seconds since local 1970-01-01T00:00): the code only ever    *)
(* divides millisecond differences by 86 400 000 and floors, so sub-second *)
(* parts never matter, and the local zone is taken to have a fixed UTC     *)
(* offset (Asia/Kathmandu has no daylight saving shifts).                  *)
(***************************************************************************)
EXTENDS Integers, Sequences, FiniteSets, TLC

VARIABLES
    kind,      \* the call sequence of this run: "ad", "pair", "bs", "table", "mobile",
               \* "digits", "format", "relative"; in a call-sequence run, the last call
    pc,        \* position in the call sequence
    adIn,      \* the Date handed to adToBS
    adIn2,     \* a second, later Date handed to adToBS ("pair" runs)
    bsIn,      \* the BSDate handed to bsToAD / the (year, month) looked up
    bsOut,     \* adToBS's result
    bsOut2,    \* adToBS's result for adIn2
    adOut,     \* bsToAD's result
    adToBSIters, \* loop iterations the last adToBS call made
    bsToADIters, \* loop iterations the last bsToAD call made
    dim,       \* getDaysInBSMonth's result ("table" runs)
    diy,       \* getDaysInBSYear's result ("table" runs)
    strIn,     \* the string handed to toNepaliDigits
    fmtStyle,  \* the format argument of formatBSDate, "undefined" when omitted
    strOut,    \* the string a formatter returned
    relDate,   \* the timestamp handed to getRelativeTimeNepali
    relNow,    \* the "now" handed to getRelativeTimeNepali
    calendarData, \* the module-level object BS_CALENDAR_DATA
    bsReference,  \* the module-level object BS_REFERENCE
    adReference,  \* the module-level Date object AD_REFERENCE
    adOut2,    \* bsToAD's result for the first day of the next year ("year" runs)
    currentConfig, \* config.ts: the module variable currentConfig
    instances,     \* client.ts: the six cached instances, null or built
    lastOutcome,   \* how the last Appwrite call ended: "ok" or the error thrown
    projectSet,    \* history: initializeConfig has been given a non-empty projectId
    viewCount,        \* the article document's viewCount in the database
    initialViewCount, \* history: viewCount before any call
    viewCalls,        \* the incrementViewCount calls: position and article read
    user,          \* AuthProvider: the user state
    author,        \* AuthProvider: the author state
    isLoading,     \* AuthProvider: the isLoading state
    session,       \* the Appwrite account has a current session
    authorExists,  \* the authors collection holds a profile of the user
    authCalls      \* the AuthProvider calls: which function, and the await it is at

\* the formatters' inputs and output
textVars == <<strIn, fmtStyle, strOut, relDate, relNow>>

\* the shared objects every operation reads
objVars == <<calendarData, bsReference, adReference>>

\* what the converter, formatter and call-sequence runs above never touch
\* the Appwrite configuration and client cache
configVars == <<currentConfig, instances, lastOutcome, projectSet>>

\* the article document and the incrementViewCount calls on it
viewVars == <<viewCount, initialViewCount, viewCalls>>

\* the AuthProvider, the calls in flight and the server state they meet
authVars == <<user, author, isLoading, session, authorExists, authCalls>>

\* the application state outside the date library
appVars == <<configVars, viewVars, authVars>>

extVars == <<adOut2, appVars>>

vars == <<kind, pc, adIn, adIn2, bsIn, bsOut, bsOut2, adOut, adToBSIters,
          bsToADIters, dim, diy, textVars, objVars, extVars>>

-----------------------------------------------------------------------------
(* Bounds of the model *)

\* AD days checked densely: offsets -MaxBackDays .. MaxFwdDays from the anchor
MaxFwdDays == 750
MaxBackDays == 380
\* ... and a window of +-FarWindow days around the first day after the table
FarWindow == 20
\* BS dates checked densely: years 2080-BackYears .. 2080+FwdYears
BackYears == 1
FwdYears == 2
\* years around the table looked up by getDaysInBSMonth / getDaysInBSYear
YearMargin == 4
\* cap on the iterations of one loop that the model follows
MaxSteps == 6000

-----------------------------------------------------------------------------
(* JavaScript Date, as far as the converter uses it *)

SecondsPerDay == 60 * 60 * 24

\* days from 1970-01-01 to the civil date (y, m, d), m in 1..12; d may
\* overflow the month, as the Date constructor and setDate allow
DaysFromCivil(y, m, d) ==
    LET yy  == IF m <= 2 THEN y - 1 ELSE y
        era == yy \div 400
        yoe == yy - era * 400
        mp  == IF m > 2 THEN m - 3 ELSE m + 9
        doy == (153 * mp + 2) \div 5 + d - 1
        doe == yoe * 365 + yoe \div 4 - yoe \div 100 + doy
    IN  era * 146097 + doe - 719468

\* the civil date of a day number: getFullYear / getMonth+1 / getDate
CivilFromDays(z) ==
    LET zz  == z + 719468
        era == zz \div 146097
        doe == zz - era * 146097
        yoe == (doe - doe \div 1460 + doe \div 36524 - doe \div 146096) \div 365
        doy == doe - (365 * yoe + yoe \div 4 - yoe \div 100)
        mp  == (5 * doy + 2) \div 153
        d   == doy - (153 * mp + 2) \div 5 + 1
        m   == IF mp < 10 THEN mp + 3 ELSE mp - 9
    IN  [year |-> IF m <= 2 THEN yoe + era * 400 + 1 ELSE yoe + era * 400,
         month |-> m, day |-> d]

\* new Date(year, monthIndex, day): local midnight, monthIndex 0-based
NewDate(year, monthIndex, day) ==
    DaysFromCivil(year, monthIndex + 1, day) * SecondsPerDay

\* the local calendar day a Date falls on
CalendarDay(date) == CivilFromDays(date \div SecondsPerDay)

\* d = new Date(date); d.setDate(d.getDate() + n): the day of the month is
\* replaced, the time of day kept, overflow carried into months and years
SetDatePlus(date, n) ==
    LET c == CalendarDay(date)
    IN  DaysFromCivil(c.year, c.month, c.day + n) * SecondsPerDay
          + (date % SecondsPerDay)

-----------------------------------------------------------------------------
(* Calendar table and reference anchor *)

BS_CALENDAR_DATA ==
    [y \in 2080..2090 |->
        CASE y = 2080 -> <<31, 32, 31, 32, 31, 30, 30, 30, 29, 30, 29, 31>>
          [] y = 2081 -> <<31, 31, 32, 31, 31, 31, 30, 29, 30, 29, 30, 30>>
          [] y = 2082 -> <<31, 31, 32, 32, 31, 30, 30, 29, 30, 29, 30, 30>>
          [] y = 2083 -> <<31, 32, 31, 32, 31, 30, 30, 30, 29, 29, 30, 31>>
          [] y = 2084 -> <<30, 32, 31, 32, 31, 30, 30, 30, 29, 30, 29, 31>>
          [] y = 2085 -> <<31, 31, 32, 31, 31, 31, 30, 29, 30, 29, 30, 30>>
          [] y = 2086 -> <<31, 31, 32, 32, 31, 30, 30, 29, 30, 29, 30, 30>>
          [] y = 2087 -> <<31, 32, 31, 32, 31, 30, 30, 30, 29, 29, 30, 31>>
          [] y = 2088 -> <<31, 31, 31, 32, 31, 31, 29, 30, 30, 29, 29, 31>>
          [] y = 2089 -> <<31, 31, 32, 31, 31, 31, 30, 29, 30, 29, 30, 30>>
          [] y = 2090 -> <<31, 31, 32, 32, 31, 30, 30, 29, 30, 29, 30, 30>>]

TableYears == DOMAIN BS_CALENDAR_DATA

BS_REFERENCE == [year |-> 2080, month |-> 1, day |-> 1]

\* (mutant: the month given 1-based to the Date constructor)
AD_REFERENCE_OneBasedMonth == NewDate(2023, 4, 14)

\* new Date(2023, 3, 14): April 14, 2023
AD_REFERENCE == NewDate(2023, 3, 14)

\* const defaultDays = [...] of getDaysInBSMonth
defaultDays == <<31, 31, 32, 31, 31, 31, 30, 29, 30, 29, 30, 30>>

-----------------------------------------------------------------------------
(* Calendar table lookups *)

\* (mutant: a flat 30 days for a year without a table row, as the web
\* library's copy of the lookup returns)
getDaysInBSMonth_Flat30(year, month) ==
    IF year \in TableYears
    THEN IF month \in 1..12 THEN BS_CALENDAR_DATA[year][month] ELSE 30
    ELSE 30

\* (mutant: the 1-based month used as the 0-based array index)
getDaysInBSMonth_OffByOne(year, month) ==
    IF year \in TableYears
    THEN IF month + 1 \in 1..12 THEN BS_CALENDAR_DATA[year][month + 1] ELSE 30
    ELSE IF month + 1 \in 1..12 THEN defaultDays[month + 1] ELSE 30

\* a variant without the "?? 30" on the table row: an index outside the row
\* gives undefined, written 0 here
getDaysInBSMonth_NoRowDefault(year, month) ==
    IF year \in TableYears
    THEN IF month \in 1..12 THEN BS_CALENDAR_DATA[year][month] ELSE 0
    ELSE IF month \in 1..12 THEN defaultDays[month] ELSE 30

\* row[month - 1] ?? 30: a 0-based index outside the array is undefined
getDaysInBSMonth(year, month) ==
    IF year \in TableYears
    THEN IF month \in 1..12 THEN BS_CALENDAR_DATA[year][month] ELSE 30
    ELSE IF month \in 1..12 THEN defaultDays[month] ELSE 30

RECURSIVE SumSeq(_, _)
\* row.reduce((a, b) => a + b, 0), over the first n entries
SumSeq(row, n) == IF n = 0 THEN 0 ELSE SumSeq(row, n - 1) + row[n]

getDaysInBSYear(year) ==
    IF year \in TableYears
    THEN SumSeq(BS_CALENDAR_DATA[year], Len(BS_CALENDAR_DATA[year]))
    ELSE 365

-----------------------------------------------------------------------------
(* Loops.  A loop state is [year, month, day, diffDays], the loop's local   *)
(* variables.  Each while loop is run by halving an iteration budget, which *)
(* makes the same iterations in the same order and keeps the evaluation     *)
(* shallow; a loop whose condition still holds after MaxSteps iterations is *)
(* reported as still running.                                               *)

LoopStart == [year |-> BS_REFERENCE.year, month |-> BS_REFERENCE.month,
              day |-> BS_REFERENCE.day, diffDays |-> 0]

\* (mutant: diffDays -= remainingDaysInMonth, without the + 1 for the step
\* onto day 1 of the next month)
adToBSForwardBody_NoPlusOne(s) ==
    IF s.diffDays <= getDaysInBSMonth(s.year, s.month) - s.day
    THEN [year |-> s.year, month |-> s.month, day |-> s.day + s.diffDays,
          diffDays |-> 0, iters |-> s.iters + 1]
    ELSE [year     |-> IF s.month + 1 > 12 THEN s.year + 1 ELSE s.year,
          month    |-> IF s.month + 1 > 12 THEN 1 ELSE s.month + 1,
          day      |-> 1,
          diffDays |-> s.diffDays - (getDaysInBSMonth(s.year, s.month) - s.day),
          iters    |-> s.iters + 1]

\* (mutant: diffDays < remainingDaysInMonth, so the last day of a month is
\* never reached by the in-month branch)
adToBSForwardBody_StrictFit(s) ==
    IF s.diffDays < getDaysInBSMonth(s.year, s.month) - s.day
    THEN [year |-> s.year, month |-> s.month, day |-> s.day + s.diffDays,
          diffDays |-> 0, iters |-> s.iters + 1]
    ELSE [year     |-> IF s.month + 1 > 12 THEN s.year + 1 ELSE s.year,
          month    |-> IF s.month + 1 > 12 THEN 1 ELSE s.month + 1,
          day      |-> 1,
          diffDays |-> s.diffDays
                         - ((getDaysInBSMonth(s.year, s.month) - s.day) + 1),
          iters    |-> s.iters + 1]

\* adToBS, forward branch: while (diffDays > 0) { ... }, with
\* remainingDaysInMonth = getDaysInBSMonth(bsYear, bsMonth) - bsDay;
\* iters counts the iterations made (it is not a variable of the code)
adToBSForwardBody(s) ==
    IF s.diffDays <= getDaysInBSMonth(s.year, s.month) - s.day
    THEN [year |-> s.year, month |-> s.month, day |-> s.day + s.diffDays,
          diffDays |-> 0, iters |-> s.iters + 1]
    ELSE [year     |-> IF s.month + 1 > 12 THEN s.year + 1 ELSE s.year,
          month    |-> IF s.month + 1 > 12 THEN 1 ELSE s.month + 1,
          day      |-> 1,
          diffDays |-> s.diffDays
                         - ((getDaysInBSMonth(s.year, s.month) - s.day) + 1),
          iters    |-> s.iters + 1]

RECURSIVE adToBSForward(_, _)
adToBSForward(s, budget) ==
    IF ~(s.diffDays > 0) \/ budget = 0 THEN s
    ELSE IF budget = 1 THEN adToBSForwardBody(s)
    ELSE adToBSForward(adToBSForward(s, budget \div 2), budget - (budget \div 2))

\* (mutant: the day is reset to the length of the month being left, read
\* before month and year are decremented)
StepBack_StaleMonth(s, step) ==
    IF s.day - 1 < 1
    THEN [year  |-> IF s.month - 1 < 1 THEN s.year - 1 ELSE s.year,
          month |-> IF s.month - 1 < 1 THEN 12 ELSE s.month - 1,
          day   |-> getDaysInBSMonth(s.year, s.month),
          diffDays |-> s.diffDays + step]
    ELSE [year |-> s.year, month |-> s.month, day |-> s.day - 1,
          diffDays |-> s.diffDays + step]

\* one day back, diffDays moved by step: day--; if (day < 1) { month--;
\* if (month < 1) { month = 12; year-- }; day = getDaysInBSMonth(year, month) }
StepBack(s, step) ==
    IF s.day - 1 < 1
    THEN IF s.month - 1 < 1
         THEN [year |-> s.year - 1, month |-> 12,
               day |-> getDaysInBSMonth(s.year - 1, 12),
               diffDays |-> s.diffDays + step]
         ELSE [year |-> s.year, month |-> s.month - 1,
               day |-> getDaysInBSMonth(s.year, s.month - 1),
               diffDays |-> s.diffDays + step]
    ELSE [year |-> s.year, month |-> s.month, day |-> s.day - 1,
          diffDays |-> s.diffDays + step]

\* adToBS, backward branch: while (diffDays < 0) { bsDay--; diffDays++; ... }
adToBSBackwardBody(s) == StepBack(s, 1)

RECURSIVE adToBSBackward(_, _)
adToBSBackward(s, budget) ==
    IF ~(s.diffDays < 0) \/ budget = 0 THEN s
    ELSE IF budget = 1 THEN adToBSBackwardBody(s)
    ELSE adToBSBackward(adToBSBackward(s, budget \div 2), budget - (budget \div 2))

\* (mutant: truncation toward zero instead of Math.floor)
DiffDays_Trunc(adDate) ==
    IF adDate - AD_REFERENCE >= 0
    THEN (adDate - AD_REFERENCE) \div SecondsPerDay
    ELSE 0 - ((AD_REFERENCE - adDate) \div SecondsPerDay)

\* diffTime = adDate.getTime() - AD_REFERENCE.getTime();
\* diffDays = Math.floor(diffTime / (1000 * 60 * 60 * 24))
DiffDays(adDate) == (adDate - AD_REFERENCE) \div SecondsPerDay

\* the loop state adToBS ends in
adToBSRun(adDate) ==
    IF DiffDays(adDate) >= 0
    THEN adToBSForward([year |-> BS_REFERENCE.year, month |-> BS_REFERENCE.month,
                        day |-> BS_REFERENCE.day, diffDays |-> DiffDays(adDate),
                        iters |-> 0], MaxSteps)
    ELSE adToBSBackward([LoopStart EXCEPT !.diffDays = DiffDays(adDate)], MaxSteps)

\* the loop iterations adToBS has made when it ends in loop state s: the
\* backward loop makes one per day of the (negative) offset
adToBSIterations(adDate, s) ==
    IF DiffDays(adDate) >= 0 THEN s.iters ELSE 0 - DiffDays(adDate)

\* return { year: bsYear, month: bsMonth, day: bsDay }
ToBSDate(s) == [year |-> s.year, month |-> s.month, day |-> s.day]

adToBS(adDate) == ToBSDate(adToBSRun(adDate))

\* bsToAD, forward branch:
\* while (year < bsDate.year || month < bsDate.month || day < bsDate.day)
bsToADForwardCond(s, bsDate) ==
    s.year < bsDate.year \/ s.month < bsDate.month \/ s.day < bsDate.day

\* (mutant: the month rolls over at day >= daysInMonth)
bsToADForwardBody_EarlyRollover(s) ==
    IF s.day + 1 >= getDaysInBSMonth(s.year, s.month)
    THEN [year     |-> IF s.month + 1 > 12 THEN s.year + 1 ELSE s.year,
          month    |-> IF s.month + 1 > 12 THEN 1 ELSE s.month + 1,
          day      |-> 1,
          diffDays |-> s.diffDays + 1]
    ELSE [year |-> s.year, month |-> s.month, day |-> s.day + 1,
          diffDays |-> s.diffDays + 1]

\* { daysInMonth = getDaysInBSMonth(year, month); day++; diffDays++;
\*   if (day > daysInMonth) { day = 1; month++; if (month > 12) { ... } } }
bsToADForwardBody(s) ==
    IF s.day + 1 > getDaysInBSMonth(s.year, s.month)
    THEN [year     |-> IF s.month + 1 > 12 THEN s.year + 1 ELSE s.year,
          month    |-> IF s.month + 1 > 12 THEN 1 ELSE s.month + 1,
          day      |-> 1,
          diffDays |-> s.diffDays + 1]
    ELSE [year |-> s.year, month |-> s.month, day |-> s.day + 1,
          diffDays |-> s.diffDays + 1]

RECURSIVE bsToADForward(_, _, _)
bsToADForward(s, bsDate, budget) ==
    IF ~bsToADForwardCond(s, bsDate) \/ budget = 0 THEN s
    ELSE IF budget = 1 THEN bsToADForwardBody(s)
    ELSE bsToADForward(bsToADForward(s, bsDate, budget \div 2), bsDate,
                       budget - (budget \div 2))

\* bsToAD, backward branch:
\* while (year > bsDate.year || month > bsDate.month || day > bsDate.day)
bsToADBackwardCond(s, bsDate) ==
    s.year > bsDate.year \/ s.month > bsDate.month \/ s.day > bsDate.day

\* { day--; diffDays--; if (day < 1) { ... } }
bsToADBackwardBody(s) == StepBack(s, 0 - 1)

RECURSIVE bsToADBackward(_, _, _)
bsToADBackward(s, bsDate, budget) ==
    IF ~bsToADBackwardCond(s, bsDate) \/ budget = 0 THEN s
    ELSE IF budget = 1 THEN bsToADBackwardBody(s)
    ELSE bsToADBackward(bsToADBackward(s, bsDate, budget \div 2), bsDate,
                        budget - (budget \div 2))

\* if (bsDate.year > BS_REFERENCE.year || ...): target on or after the anchor
OnOrAfterReference(bsDate) ==
    \/ bsDate.year > BS_REFERENCE.year
    \/ bsDate.year = BS_REFERENCE.year /\ bsDate.month > BS_REFERENCE.month
    \/ /\ bsDate.year = BS_REFERENCE.year
       /\ bsDate.month = BS_REFERENCE.month
       /\ bsDate.day >= BS_REFERENCE.day

\* the loop state bsToAD has reached after at most MaxSteps iterations
bsToADRun(bsDate) ==
    IF OnOrAfterReference(bsDate) THEN bsToADForward(LoopStart, bsDate, MaxSteps)
    ELSE bsToADBackward(LoopStart, bsDate, MaxSteps)

\* the loop iterations bsToAD has made in loop state s: one per day walked
bsToADIterations(s) == IF s.diffDays >= 0 THEN s.diffDays ELSE 0 - s.diffDays

\* whether the loop of bsToAD has been left in that state
bsToADLeft(bsDate, s) ==
    IF OnOrAfterReference(bsDate) THEN ~bsToADForwardCond(s, bsDate)
    ELSE ~bsToADBackwardCond(s, bsDate)

\* adDate = new Date(AD_REFERENCE); adDate.setDate(adDate.getDate() + diffDays)
bsToADResult(s) == SetDatePlus(AD_REFERENCE, s.diffDays)

bsToAD(bsDate) == bsToADResult(bsToADRun(bsDate))

-----------------------------------------------------------------------------
(* The mobile app's copy (apps/mobile/src/lib/bs-date.ts): its own table,   *)
(* the same anchor, and an adToBS that adds the whole offset to the day and *)
(* then normalises month by month.                                          *)

Mobile_bsMonthDays ==
    [y \in 2080..2085 |->
        CASE y = 2080 -> <<31, 31, 32, 31, 31, 31, 30, 29, 30, 29, 30, 30>>
          [] y = 2081 -> <<31, 31, 32, 31, 32, 30, 30, 29, 30, 29, 30, 30>>
          [] y = 2082 -> <<30, 32, 31, 32, 31, 30, 30, 30, 29, 30, 29, 31>>
          [] y = 2083 -> <<31, 31, 32, 31, 31, 31, 30, 29, 30, 29, 30, 30>>
          [] y = 2084 -> <<31, 31, 32, 31, 32, 30, 30, 29, 30, 29, 30, 30>>
          [] y = 2085 -> <<31, 32, 31, 32, 31, 30, 30, 30, 29, 29, 30, 31>>]

Mobile_refBSDate == [year |-> 2080, month |-> 1, day |-> 1]

Mobile_refADDate == NewDate(2023, 3, 14)

\* the lookup over a month-length table:
\* table[year][month - 1] || 30, and the default pattern[month - 1] || 30
Mobile_getDaysInBSMonthIn(table, year, month) ==
    IF year \in DOMAIN table
    THEN IF month \in 1..12 THEN table[year][month] ELSE 30
    ELSE IF month \in 1..12 THEN defaultDays[month] ELSE 30

\* bsMonthDays[year][month - 1] || 30
Mobile_getDaysInBSMonth(year, month) ==
    Mobile_getDaysInBSMonthIn(Mobile_bsMonthDays, year, month)

\* while (bsDay > getDaysInBSMonth(bsYear, bsMonth)) { bsDay -= ...; bsMonth++ ... }
Mobile_adToBSForwardBodyIn(table, s) ==
    [year  |-> IF s.month + 1 > 12 THEN s.year + 1 ELSE s.year,
     month |-> IF s.month + 1 > 12 THEN 1 ELSE s.month + 1,
     day   |-> s.day - Mobile_getDaysInBSMonthIn(table, s.year, s.month)]

Mobile_adToBSForwardBody(s) == Mobile_adToBSForwardBodyIn(Mobile_bsMonthDays, s)

RECURSIVE Mobile_adToBSForwardIn(_, _, _)
Mobile_adToBSForwardIn(table, s, budget) ==
    IF ~(s.day > Mobile_getDaysInBSMonthIn(table, s.year, s.month)) \/ budget = 0
    THEN s
    ELSE IF budget = 1 THEN Mobile_adToBSForwardBodyIn(table, s)
    ELSE Mobile_adToBSForwardIn(table,
                                Mobile_adToBSForwardIn(table, s, budget \div 2),
                                budget - (budget \div 2))

Mobile_adToBSForward(s, budget) ==
    Mobile_adToBSForwardIn(Mobile_bsMonthDays, s, budget)

\* while (bsDay < 1) { bsMonth--; if (bsMonth < 1) { bsMonth = 12; bsYear-- };
\*                     bsDay += getDaysInBSMonth(bsYear, bsMonth) }
Mobile_adToBSBackwardBodyIn(table, s) ==
    IF s.month - 1 < 1
    THEN [year |-> s.year - 1, month |-> 12,
          day |-> s.day + Mobile_getDaysInBSMonthIn(table, s.year - 1, 12)]
    ELSE [year |-> s.year, month |-> s.month - 1,
          day |-> s.day + Mobile_getDaysInBSMonthIn(table, s.year, s.month - 1)]

Mobile_adToBSBackwardBody(s) == Mobile_adToBSBackwardBodyIn(Mobile_bsMonthDays, s)

RECURSIVE Mobile_adToBSBackwardIn(_, _, _)
Mobile_adToBSBackwardIn(table, s, budget) ==
    IF ~(s.day < 1) \/ budget = 0 THEN s
    ELSE IF budget = 1 THEN Mobile_adToBSBackwardBodyIn(table, s)
    ELSE Mobile_adToBSBackwardIn(table,
                                 Mobile_adToBSBackwardIn(table, s, budget \div 2),
                                 budget - (budget \div 2))

Mobile_adToBSBackward(s, budget) ==
    Mobile_adToBSBackwardIn(Mobile_bsMonthDays, s, budget)

\* the mobile adToBS over a given table and anchor:
\* diffDays = Math.floor((adDate.getTime() - refADDate.getTime()) / 86400000);
\* bsDay = refBSDate.day + diffDays, then the branch's loop
Mobile_adToBSIn(table, refBS, refAD, adDate) ==
    IF (adDate - refAD) \div SecondsPerDay >= 0
    THEN Mobile_adToBSForwardIn(table,
             [refBS EXCEPT !.day = @ + ((adDate - refAD) \div SecondsPerDay)],
             MaxSteps)
    ELSE Mobile_adToBSBackwardIn(table,
             [refBS EXCEPT !.day = @ + ((adDate - refAD) \div SecondsPerDay)],
             MaxSteps)

Mobile_adToBS(adDate) ==
    Mobile_adToBSIn(Mobile_bsMonthDays, Mobile_refBSDate, Mobile_refADDate, adDate)

-----------------------------------------------------------------------------
(* Text.  A string is the sequence of its UTF-16 code units: "0".."9" are   *)
(* 48..57, "-" is 45, " " is 32, "," is 44, and the Devanagari digits are   *)
(* 2406..2415 (U+0966..U+096F).                                             *)

\* what parseInt returns for a string that does not start with a digit
NaN == 0 - 1

\* parseInt(char, 10) of a one-unit string: the ASCII digit's value, or NaN
parseInt(char) == IF char \in 48..57 THEN char - 48 ELSE NaN

\* the ten Devanagari digit glyphs, U+0966 .. U+096F
NEPALI_DIGITS == <<2406, 2407, 2408, 2409, 2410, 2411, 2412, 2413, 2414, 2415>>

RECURSIVE DecimalDigits(_)
\* the decimal digits of a natural number, most significant first
DecimalDigits(n) ==
    IF n < 10 THEN <<48 + n>> ELSE DecimalDigits(n \div 10) \o <<48 + (n % 10)>>

\* String(num) / num.toString() of an integer
NumberToString(num) ==
    IF num < 0 THEN <<45>> \o DecimalDigits(0 - num) ELSE DecimalDigits(num)

\* a variant that tests the digit for truthiness, so "0" is left as it is
toNepaliDigits_ZeroFalsy(str) ==
    [i \in 1..Len(str) |->
        IF parseInt(str[i]) = NaN \/ parseInt(str[i]) = 0
        THEN str[i]
        ELSE NEPALI_DIGITS[parseInt(str[i]) + 1]]

\* String(num).split("").map(char => isNaN(parseInt(char, 10)) ? char
\*                                     : NEPALI_DIGITS[digit]).join("")
\* str is String(num); NEPALI_DIGITS[digit] is 0-based in the code
toNepaliDigits(str) ==
    [i \in 1..Len(str) |->
        IF parseInt(str[i]) = NaN
        THEN str[i]
        ELSE NEPALI_DIGITS[parseInt(str[i]) + 1]]

\* a variant that pads nothing
padStart_NoPad(str, targetLength, padUnit) == str

RECURSIVE padStart(_, _, _)
\* str.padStart(targetLength, pad) with a one-unit pad string
padStart(str, targetLength, padUnit) ==
    IF Len(str) >= targetLength
    THEN str
    ELSE padStart(<<padUnit>> \o str, targetLength, padUnit)

\* the twelve BS month names, Baishakh .. Chaitra
BS_MONTHS ==
    <<       <<2348, 2376, 2358, 2366, 2326>>,
       <<2332, 2375, 2336>>,
       <<2309, 2360, 2366, 2352>>,
       <<2358, 2381, 2352, 2366, 2357, 2339>>,
       <<2349, 2342, 2380>>,
       <<2309, 2360, 2379, 2332>>,
       <<2325, 2366, 2352, 2381, 2340, 2367, 2325>>,
       <<2350, 2306, 2360, 2367, 2352>>,
       <<2346, 2369, 2359>>,
       <<2350, 2366, 2328>>,
       <<2347, 2366, 2327, 2369, 2344>>,
       <<2330, 2376, 2340, 2381, 2352>>>>
\* the three layouts of formatBSDate, numbers localised
FormatShort(year, month, day) ==
    toNepaliDigits(NumberToString(year)) \o <<45>>
        \o toNepaliDigits(padStart(NumberToString(month), 2, 48)) \o <<45>>
        \o toNepaliDigits(padStart(NumberToString(day), 2, 48))

FormatLong(monthName, year, day) ==
    monthName \o <<32>> \o toNepaliDigits(NumberToString(day)) \o <<44, 32>>
        \o toNepaliDigits(NumberToString(year))

FormatFull(monthName, year, day) ==
    toNepaliDigits(NumberToString(day)) \o <<32>> \o monthName \o <<32>>
        \o toNepaliDigits(NumberToString(year))

\* a variant whose default case is the long layout
formatBSDate_DefaultLong(bsDate, format) ==
    LET monthName == IF bsDate.month \in 1..12 THEN BS_MONTHS[bsDate.month] ELSE <<>>
    IN  IF format = "short"
        THEN FormatShort(bsDate.year, bsDate.month, bsDate.day)
        ELSE FormatLong(monthName, bsDate.year, bsDate.day)

\* formatBSDate(bsDate, format = "full"): an omitted format is "undefined" here;
\* monthName = BS_MONTHS[month - 1] ?? ""; the switch's "full" case is its default
formatBSDate(bsDate, format) ==
    LET monthName == IF bsDate.month \in 1..12 THEN BS_MONTHS[bsDate.month] ELSE <<>>
        style == IF format = "undefined" THEN "full" ELSE format
    IN  IF style = "short"
        THEN FormatShort(bsDate.year, bsDate.month, bsDate.day)
        ELSE IF style = "long"
             THEN FormatLong(monthName, bsDate.year, bsDate.day)
             ELSE FormatFull(monthName, bsDate.year, bsDate.day)

-----------------------------------------------------------------------------
(* Relative time.  A timestamp is [time |-> Date, ms |-> 0..999]: the Date  *)
(* of its whole second and the milliseconds within it.                      *)
\* just now
JUST_NOW == <<2349, 2352, 2381, 2326, 2352, 2376>>
\* <N> minutes ago
MINUTES_AGO == <<32, 2350, 2367, 2344, 2375, 2335, 32, 2309, 2328, 2367>>
\* <N> hours ago
HOURS_AGO == <<32, 2328, 2339, 2381, 2335, 2366, 32, 2309, 2328, 2367>>
\* yesterday
YESTERDAY == <<2361, 2367, 2332, 2379>>
\* <N> days ago
DAYS_AGO == <<32, 2342, 2367, 2344, 32, 2309, 2328, 2367>>
\* last week
LAST_WEEK == <<2327, 2340, 32, 2361, 2346, 2381, 2340, 2366>>
\* <N> weeks ago
WEEKS_AGO == <<32, 2361, 2346, 2381, 2340, 2366, 32, 2309, 2328, 2367>>
\* last month
LAST_MONTH == <<2327, 2340, 32, 2350, 2361, 2367, 2344, 2366>>
\* <N> months ago
MONTHS_AGO == <<32, 2350, 2361, 2367, 2344, 2366, 32, 2309, 2328, 2367>>
\* Math.floor((now.getTime() - date.getTime()) / 1000); diffMs < 0 exactly
\* when this floor is < 0
DiffSecs(date, now) == (now.time - date.time) + ((now.ms - date.ms) \div 1000)

\* the count of a bucket in Nepali digits, then its unit
Counted(n, unit) == toNepaliDigits(NumberToString(n)) \o unit

\* a variant that has no future check: a negative difference falls into the
\* first bucket
getRelativeTimeNepali_NoFutureCheck(date, now) ==
    LET diffSecs == DiffSecs(date, now)
        diffMins == diffSecs \div 60
        diffHours == diffMins \div 60
        diffDays == diffHours \div 24
        diffWeeks == diffDays \div 7
        diffMonths == diffDays \div 30
    IN  IF diffSecs < 60 THEN JUST_NOW
        ELSE IF diffMins < 60 THEN Counted(diffMins, MINUTES_AGO)
        ELSE IF diffHours < 24 THEN Counted(diffHours, HOURS_AGO)
        ELSE IF diffDays = 1 THEN YESTERDAY
        ELSE IF diffDays < 7 THEN Counted(diffDays, DAYS_AGO)
        ELSE IF diffWeeks = 1 THEN LAST_WEEK
        ELSE IF diffWeeks < 4 THEN Counted(diffWeeks, WEEKS_AGO)
        ELSE IF diffMonths = 1 THEN LAST_MONTH
        ELSE IF diffMonths < 12 THEN Counted(diffMonths, MONTHS_AGO)
        ELSE formatBSDate(adToBS(date.time), "undefined")

\* a variant that tests the week buckets before the day buckets
getRelativeTimeNepali_WeeksFirst(date, now) ==
    LET diffSecs == DiffSecs(date, now)
        diffMins == diffSecs \div 60
        diffHours == diffMins \div 60
        diffDays == diffHours \div 24
        diffWeeks == diffDays \div 7
        diffMonths == diffDays \div 30
    IN  IF diffSecs < 0 THEN formatBSDate(adToBS(date.time), "undefined")
        ELSE IF diffSecs < 60 THEN JUST_NOW
        ELSE IF diffMins < 60 THEN Counted(diffMins, MINUTES_AGO)
        ELSE IF diffHours < 24 THEN Counted(diffHours, HOURS_AGO)
        ELSE IF diffDays = 1 THEN YESTERDAY
        ELSE IF diffWeeks = 1 THEN LAST_WEEK
        ELSE IF diffWeeks < 4 THEN Counted(diffWeeks, WEEKS_AGO)
        ELSE IF diffDays < 7 THEN Counted(diffDays, DAYS_AGO)
        ELSE IF diffMonths = 1 THEN LAST_MONTH
        ELSE IF diffMonths < 12 THEN Counted(diffMonths, MONTHS_AGO)
        ELSE formatBSDate(adToBS(date.time), "undefined")

\* a variant whose day bucket reaches up to 13 days
getRelativeTimeNepali_DaysToTwoWeeks(date, now) ==
    LET diffSecs == DiffSecs(date, now)
        diffMins == diffSecs \div 60
        diffHours == diffMins \div 60
        diffDays == diffHours \div 24
        diffWeeks == diffDays \div 7
        diffMonths == diffDays \div 30
    IN  IF diffSecs < 0 THEN formatBSDate(adToBS(date.time), "undefined")
        ELSE IF diffSecs < 60 THEN JUST_NOW
        ELSE IF diffMins < 60 THEN Counted(diffMins, MINUTES_AGO)
        ELSE IF diffHours < 24 THEN Counted(diffHours, HOURS_AGO)
        ELSE IF diffDays = 1 THEN YESTERDAY
        ELSE IF diffDays < 14 THEN Counted(diffDays, DAYS_AGO)
        ELSE IF diffWeeks < 4 THEN Counted(diffWeeks, WEEKS_AGO)
        ELSE IF diffMonths = 1 THEN LAST_MONTH
        ELSE IF diffMonths < 12 THEN Counted(diffMonths, MONTHS_AGO)
        ELSE formatBSDate(adToBS(date.time), "undefined")

\* getRelativeTimeNepali(date, now): the future check, the six floors, then
\* the first bucket that matches
getRelativeTimeNepali(date, now) ==
    LET diffSecs == DiffSecs(date, now)
        diffMins == diffSecs \div 60
        diffHours == diffMins \div 60
        diffDays == diffHours \div 24
        diffWeeks == diffDays \div 7
        diffMonths == diffDays \div 30
    IN  IF diffSecs < 0 THEN formatBSDate(adToBS(date.time), "undefined")
        ELSE IF diffSecs < 60 THEN JUST_NOW
        ELSE IF diffMins < 60 THEN Counted(diffMins, MINUTES_AGO)
        ELSE IF diffHours < 24 THEN Counted(diffHours, HOURS_AGO)
        ELSE IF diffDays = 1 THEN YESTERDAY
        ELSE IF diffDays < 7 THEN Counted(diffDays, DAYS_AGO)
        ELSE IF diffWeeks = 1 THEN LAST_WEEK
        ELSE IF diffWeeks < 4 THEN Counted(diffWeeks, WEEKS_AGO)
        ELSE IF diffMonths = 1 THEN LAST_MONTH
        ELSE IF diffMonths < 12 THEN Counted(diffMonths, MONTHS_AGO)
        ELSE formatBSDate(adToBS(date.time), "undefined")

-----------------------------------------------------------------------------
(* The web library's copy (src/unnamed/part_012): its table and anchor are  *)
(* BS_CALENDAR_DATA, BS_REFERENCE and AD_REFERENCE above                    *)

\* BS_CALENDAR_DATA[year][month - 1], undefined (NaN here) outside the row;
\* 30 for a year outside the table
Web_getDaysInBSMonth(year, month) ==
    IF year \in TableYears
    THEN IF month \in 1..12 THEN BS_CALENDAR_DATA[year][month] ELSE NaN
    ELSE 30

\* while (diffDays > 0) { ... }: the month-skipping loop
Web_adToBSForwardBody(s) ==
    IF s.diffDays <= Web_getDaysInBSMonth(s.year, s.month) - s.day
    THEN [year |-> s.year, month |-> s.month, day |-> s.day + s.diffDays,
          diffDays |-> 0]
    ELSE [year     |-> IF s.month + 1 > 12 THEN s.year + 1 ELSE s.year,
          month    |-> IF s.month + 1 > 12 THEN 1 ELSE s.month + 1,
          day      |-> 1,
          diffDays |-> s.diffDays
                         - ((Web_getDaysInBSMonth(s.year, s.month) - s.day) + 1)]

RECURSIVE Web_adToBSForward(_, _)
Web_adToBSForward(s, budget) ==
    IF ~(s.diffDays > 0) \/ budget = 0 THEN s
    ELSE IF budget = 1 THEN Web_adToBSForwardBody(s)
    ELSE Web_adToBSForward(Web_adToBSForward(s, budget \div 2),
                           budget - (budget \div 2))

\* while (diffDays < 0) { bsDay--; diffDays++; if (bsDay < 1) { bsMonth--; ...;
\*                        bsDay = getDaysInBSMonth(bsYear, bsMonth) } }
Web_adToBSBackwardBody(s) ==
    IF s.day - 1 < 1
    THEN IF s.month - 1 < 1
         THEN [year |-> s.year - 1, month |-> 12,
               day |-> Web_getDaysInBSMonth(s.year - 1, 12),
               diffDays |-> s.diffDays + 1]
         ELSE [year |-> s.year, month |-> s.month - 1,
               day |-> Web_getDaysInBSMonth(s.year, s.month - 1),
               diffDays |-> s.diffDays + 1]
    ELSE [year |-> s.year, month |-> s.month, day |-> s.day - 1,
          diffDays |-> s.diffDays + 1]

RECURSIVE Web_adToBSBackward(_, _)
Web_adToBSBackward(s, budget) ==
    IF ~(s.diffDays < 0) \/ budget = 0 THEN s
    ELSE IF budget = 1 THEN Web_adToBSBackwardBody(s)
    ELSE Web_adToBSBackward(Web_adToBSBackward(s, budget \div 2),
                            budget - (budget \div 2))

\* the two loops one after the other, without an if / else around them
Web_adToBS(adDate) ==
    ToBSDate(Web_adToBSBackward(
                 Web_adToBSForward([LoopStart EXCEPT !.diffDays = DiffDays(adDate)],
                                   MaxSteps),
                 MaxSteps))

\* formatBSDate(bsDate, format = "full"): the short layout, else
\* "<day> <monthName>, <year>"; a month outside 1..12 prints "undefined"
Web_formatBSDate(bsDate, format) ==
    IF format = "short"
    THEN FormatShort(bsDate.year, bsDate.month, bsDate.day)
    ELSE toNepaliDigits(NumberToString(bsDate.day)) \o <<32>>
             \o (IF bsDate.month \in 1..12 THEN BS_MONTHS[bsDate.month] ELSE <<117, 110, 100, 101, 102, 105, 110, 101, 100>>)
             \o <<44, 32>> \o toNepaliDigits(NumberToString(bsDate.year))

\* getRelativeTimeNepali(date) of the web library: three floors of diffMs
\* (each a floor of the whole seconds), four buckets, else the BS date
Web_getRelativeTimeNepali(date, now) ==
    LET diffMins == DiffSecs(date, now) \div 60
        diffHours == DiffSecs(date, now) \div (60 * 60)
        diffDays == DiffSecs(date, now) \div (60 * 60 * 24)
    IN  IF diffMins < 1 THEN JUST_NOW
        ELSE IF diffMins < 60 THEN Counted(diffMins, MINUTES_AGO)
        ELSE IF diffHours < 24 THEN Counted(diffHours, HOURS_AGO)
        ELSE IF diffDays < 7 THEN Counted(diffDays, DAYS_AGO)
        ELSE Web_formatBSDate(Web_adToBS(date.time), "undefined")

-----------------------------------------------------------------------------
(* The mobile copy's formatters (src/apps/mobile/src/lib/bs-date.ts)        *)

\* the mobile copy's twelve month names
Mobile_nepaliMonths ==
    <<<<2348, 2376, 2358, 2366, 2326>>,
      <<2332, 2375, 2336>>,
      <<2309, 2360, 2366, 2352>>,
      <<2360, 2366, 2313, 2344>>,
      <<2349, 2342, 2380>>,
      <<2309, 2360, 2379, 2332>>,
      <<2325, 2366, 2352, 2381, 2340, 2367, 2325>>,
      <<2350, 2306, 2360, 2367, 2352>>,
      <<2346, 2369, 2359>>,
      <<2350, 2366, 2328>>,
      <<2347, 2366, 2327, 2369, 2344>>,
      <<2330, 2376, 2340>>>>

\* `${day} ${month} ${year}`; a month outside 1..12 prints "undefined"
Mobile_formatBSDate(bsDate) ==
    toNepaliDigits(NumberToString(bsDate.day)) \o <<32>>
        \o (IF bsDate.month \in 1..12 THEN Mobile_nepaliMonths[bsDate.month] ELSE <<117, 110, 100, 101, 102, 105, 110, 101, 100>>)
        \o <<32>> \o toNepaliDigits(NumberToString(bsDate.year))

\* the mobile copy's "just now"
Mobile_NOW == <<2309, 2361, 2367, 2354, 2375>>

\* formatRelativeTime(date) of the mobile copy
Mobile_formatRelativeTime(date, now) ==
    LET diffMins == DiffSecs(date, now) \div 60
        diffHours == DiffSecs(date, now) \div (60 * 60)
        diffDays == DiffSecs(date, now) \div (60 * 60 * 24)
    IN  IF diffMins < 1 THEN Mobile_NOW
        ELSE IF diffMins < 60 THEN Counted(diffMins, MINUTES_AGO)
        ELSE IF diffHours < 24 THEN Counted(diffHours, HOURS_AGO)
        ELSE IF diffDays < 7 THEN Counted(diffDays, DAYS_AGO)
        ELSE Mobile_formatBSDate(Mobile_adToBS(date.time))

-----------------------------------------------------------------------------
(* The Appwrite package: configuration (config.ts) and client cache        *)
(* (client.ts).  Of a configuration only endpoint and projectId are kept.  *)

\* a property a Partial<AppwriteConfig> does not have, and one it has with the
\* value undefined (an unset environment variable)
Absent == "<absent>"
Undefined == "<undefined>"

\* !value for a string or undefined
Falsy(value) == value \in {"", Undefined}

defaultConfig == [endpoint |-> "https://cloud.appwrite.io/v1", projectId |-> ""]

\* { ...defaultConfig, ...config }: a property config has replaces the default
initializeConfig(config) ==
    [endpoint  |-> IF config.endpoint = Absent
                   THEN defaultConfig.endpoint ELSE config.endpoint,
     projectId |-> IF config.projectId = Absent
                   THEN defaultConfig.projectId ELSE config.projectId]

\* the Error getConfig throws
NotConfigured ==
    "Appwrite not configured. Call initializeConfig() with your projectId first."

\* getConfig(): what it ends with
getConfig(config) == IF Falsy(config.projectId) THEN NotConfigured ELSE "ok"

Null == [null |-> TRUE]

\* let client = null, account = null, ...
NoInstances ==
    [client |-> Null, account |-> Null, databases |-> Null, storage |-> Null,
     teams |-> Null, functions |-> Null]

\* a variant that builds the Client before it asks for the configuration
getClient_BuildFirst(config, cached) ==
    IF cached.client = Null
    THEN IF getConfig(config) # "ok"
         THEN [outcome |-> getConfig(config),
               instances |-> [cached EXCEPT !.client =
                                 [endpoint |-> Undefined, project |-> Undefined]],
               value |-> Null]
         ELSE [outcome |-> "ok",
               instances |-> [cached EXCEPT !.client =
                                 [endpoint |-> config.endpoint,
                                  project |-> config.projectId]],
               value |-> [endpoint |-> config.endpoint, project |-> config.projectId]]
    ELSE [outcome |-> "ok", instances |-> cached, value |-> cached.client]

\* getClient(): if (!client) { config = getConfig(); client = new Client();
\* client.setEndpoint(...).setProject(...) } return client.  A throw of
\* getConfig leaves client as it was.
getClient(config, cached) ==
    IF cached.client = Null
    THEN IF getConfig(config) # "ok"
         THEN [outcome |-> getConfig(config), instances |-> cached, value |-> Null]
         ELSE [outcome |-> "ok",
               instances |-> [cached EXCEPT !.client =
                                 [endpoint |-> config.endpoint,
                                  project |-> config.projectId]],
               value |-> [endpoint |-> config.endpoint, project |-> config.projectId]]
    ELSE [outcome |-> "ok", instances |-> cached, value |-> cached.client]

\* getAccount(), getDatabases(), getStorage(), getTeams(), getFunctions():
\* if (!x) { x = new X(getClient()) } return x
getService(name, config, cached) ==
    IF cached[name] = Null
    THEN LET c == getClient(config, cached)
         IN  IF c.outcome # "ok"
             THEN [outcome |-> c.outcome, instances |-> c.instances, value |-> Null]
             ELSE [outcome |-> "ok",
                   instances |-> [c.instances EXCEPT ![name] =
                                     [service |-> name, client |-> c.value]],
                   value |-> [service |-> name, client |-> c.value]]
    ELSE [outcome |-> "ok", instances |-> cached, value |-> cached[name]]

ServiceNames == {"account", "databases", "storage", "teams", "functions"}

-----------------------------------------------------------------------------
(* news.service.ts: incrementViewCount on one article.  A call is at       *)
(* "idle" (not made), "getArticleById" (awaiting the document),            *)
(* "updateDocument" (document read, awaiting the update) or "done".        *)

\* the calls made at most, and the largest viewCount before them
MaxCalls == 3
MaxViews == 2

ViewCallIds == 1..MaxCalls

NoArticle == [viewCount |-> -1]

IdleViewCall == [pc |-> "idle", article |-> NoArticle]

\* the data sent to updateDocument: { viewCount: article.viewCount + 1 },
\* whatever the document holds by then
incrementedDocument(stored, article) == [viewCount |-> article.viewCount + 1]

-----------------------------------------------------------------------------
(* The web app's AuthProvider and the auth service calls it awaits.  One   *)
(* account is modelled.  State updates made one after the other without an *)
(* await between them are taken as one render (batched).                   *)

\* the AuthProvider calls followed at most
MaxAuthCalls == 3

AuthCallIds == 1..MaxAuthCalls

\* what getCurrentUser and getAuthorProfile return for the account
TheUser == [id |-> "user1"]
TheAuthor == [userId |-> "user1", role |-> "editor"]

IdleAuthCall == [op |-> "none", pc |-> "idle"]

\* getCurrentUser(): account.get() answers while there is a session; with no
\* session, or when the request fails, the catch returns null
getCurrentUser(hasSession) == IF hasSession THEN {TheUser, Null} ELSE {Null}

\* getAuthorProfile(userId): the first matching document; null when there is
\* none or when the request fails
getAuthorProfile(exists) == IF exists THEN {TheAuthor, Null} ELSE {Null}

-----------------------------------------------------------------------------
(* Inputs *)

RECURSIVE DaysInYears(_, _)
\* the days of BS years from .. to - 1
DaysInYears(from, to) ==
    IF from >= to THEN 0 ELSE getDaysInBSYear(from) + DaysInYears(from + 1, to)

FirstTableYear == CHOOSE y \in TableYears : \A z \in TableYears : y <= z
LastTableYear == CHOOSE y \in TableYears : \A z \in TableYears : y >= z

\* day offset of the first day after the last table year
TableEndOffset == DaysInYears(BS_REFERENCE.year, LastTableYear + 1)

DayOffsets ==
    ((0 - MaxBackDays)..MaxFwdDays)
        \cup ((TableEndOffset - FarWindow)..(TableEndOffset + FarWindow))

TimesOfDay == {0, SecondsPerDay - 1}

\* the Date at time of day t of the day n days from the anchor
DateAt(n, t) == AD_REFERENCE + n * SecondsPerDay + t

\* distances between the two Dates of a "pair" run, in seconds
Gaps == {1, SecondsPerDay - 1, SecondsPerDay, 45 * SecondsPerDay}

NearYears == (BS_REFERENCE.year - BackYears)..(BS_REFERENCE.year + FwdYears)
FarYears == (LastTableYear - 1)..(LastTableYear + 1)
LookupYears == (FirstTableYear - YearMargin)..(LastTableYear + YearMargin)

\* caller-built BSDate values: month in 1..12, day in 1..31, valid or not
BSInputs ==
    {[year |-> y, month |-> m, day |-> d] : y \in NearYears, m \in 1..12, d \in 1..31}
        \cup {[year |-> y, month |-> m, day |-> d] :
                 y \in FarYears, m \in 1..12, d \in {1, 30, 31}}

\* the README's example: adToBS(new Date("2025-12-29")), UTC midnight, which is
\* 05:45 of the same day in Nepal; the model takes the Dates of that local day
DocExampleDay == NewDate(2025, 11, 29)

\* the Dates handed to adToBS
ADInputs ==
    {DateAt(n, t) : n \in DayOffsets, t \in TimesOfDay}
        \cup {DocExampleDay + t : t \in TimesOfDay}

NoDate == 0 - 1
NoBSDate == [year |-> 0, month |-> 0, day |-> 0]

-----------------------------------------------------------------------------
(* Runs: one call sequence per run, its input drawn at the start *)

NoTimestamp == [time |-> NoDate, ms |-> 0]

\* no formatter is called in this run
InitNoText ==
    /\ strIn = <<>> /\ fmtStyle = "undefined" /\ strOut = <<>>
    /\ relDate = NoTimestamp /\ relNow = NoTimestamp

\* the module-level objects as the module's top level builds them
InitObjects ==
    /\ calendarData = BS_CALENDAR_DATA
    /\ bsReference = BS_REFERENCE
    /\ adReference = AD_REFERENCE

\* no result yet
InitResults ==
    /\ pc = "input"
    /\ bsOut = NoBSDate /\ bsOut2 = NoBSDate /\ adOut = NoDate
    /\ adToBSIters = 0 /\ bsToADIters = 0
    /\ dim = 0 /\ diy = 0

\* nothing of the later runs has happened
\* config.ts and client.ts as their top level leaves them
InitConfig ==
    /\ currentConfig = defaultConfig
    /\ instances = NoInstances
    /\ lastOutcome = "none"
    /\ projectSet = FALSE

\* no incrementViewCount call made
InitNoViews ==
    /\ viewCount = 0
    /\ initialViewCount = 0
    /\ viewCalls = [i \in ViewCallIds |-> IdleViewCall]

\* an AuthProvider that is not mounted
InitNoAuth ==
    /\ user = Null
    /\ author = Null
    /\ isLoading = TRUE
    /\ session = FALSE
    /\ authorExists = FALSE
    /\ authCalls = [i \in AuthCallIds |-> IdleAuthCall]

InitNoExt == adOut2 = NoDate /\ InitConfig /\ InitNoViews /\ InitNoAuth

InitCommon == InitResults /\ InitNoText /\ InitObjects /\ InitNoExt

\* adToBS(d), then bsToAD of its result
InitAd ==
    /\ kind = "ad"
    /\ adIn \in ADInputs
    /\ adIn2 = NoDate /\ bsIn = NoBSDate

\* adToBS of two Dates, the second later than the first
InitPair ==
    /\ kind = "pair"
    /\ adIn \in ADInputs
    /\ \E g \in Gaps : adIn2 = adIn + g
    /\ bsIn = NoBSDate

\* bsToAD(d), then adToBS of its result
InitBs ==
    /\ kind = "bs"
    /\ bsIn \in BSInputs
    /\ adIn = NoDate /\ adIn2 = NoDate

\* getDaysInBSMonth(year, month) and getDaysInBSYear(year)
InitTable ==
    /\ kind = "table"
    /\ \E y \in LookupYears, m \in 0..13 : bsIn = [year |-> y, month |-> m, day |-> 1]
    /\ adIn = NoDate /\ adIn2 = NoDate

\* the mobile copy's adToBS(d)
InitMobile ==
    /\ kind = "mobile"
    /\ adIn \in ADInputs
    /\ adIn2 = NoDate /\ bsIn = NoBSDate

\* years before, in and after the table; the first day of the year after the
\* last of them is in April 2037 (the model's Dates, whole seconds as 32-bit
\* integers, end in January 2038)
SpanYears == (FirstTableYear - YearMargin)..(LastTableYear + 3)

\* bsToAD of the first day of year y and of year y + 1, and getDaysInBSYear(y)
InitYear ==
    /\ kind = "year"
    /\ \E y \in SpanYears : bsIn = [year |-> y, month |-> 1, day |-> 1]
    /\ adIn = NoDate /\ adIn2 = NoDate

Init ==
    InitCommon /\ (InitAd \/ InitPair \/ InitBs \/ InitTable \/ InitMobile \/ InitYear)

\* a call's loop is run once: r ranges over the one loop state it ends in
CallAdToBS ==
    /\ \/ kind \in {"ad", "pair"} /\ pc = "input"
       \/ kind = "bs" /\ pc = "converted"
    /\ \E r \in {adToBSRun(IF kind = "bs" THEN adOut ELSE adIn)} :
          /\ bsOut' = ToBSDate(r)
          /\ adToBSIters' = adToBSIterations(IF kind = "bs" THEN adOut ELSE adIn, r)
    /\ pc' = IF kind = "bs" THEN "done" ELSE "converted"
    /\ UNCHANGED <<textVars, objVars, extVars>>
    /\ UNCHANGED <<kind, adIn, adIn2, bsIn, bsOut2, adOut, bsToADIters, dim, diy>>

CallAdToBSAgain ==
    /\ kind = "pair" /\ pc = "converted"
    /\ bsOut2' = adToBS(adIn2)
    /\ pc' = "done"
    /\ UNCHANGED <<textVars, objVars, extVars>>
    /\ UNCHANGED <<kind, adIn, adIn2, bsIn, bsOut, adOut, adToBSIters,
                   bsToADIters, dim, diy>>

CallBsToAD ==
    /\ \/ kind = "bs" /\ pc = "input"
       \/ kind = "ad" /\ pc = "converted"
    /\ \E r \in {bsToADRun(IF kind = "bs" THEN bsIn ELSE bsOut)} :
          /\ bsToADIters' = bsToADIterations(r)
          /\ IF bsToADLeft(IF kind = "bs" THEN bsIn ELSE bsOut, r)
             THEN /\ adOut' = bsToADResult(r)
                  /\ pc' = IF kind = "bs" THEN "converted" ELSE "done"
             ELSE /\ adOut' = NoDate
                  /\ pc' = "looping"
    /\ UNCHANGED <<textVars, objVars, extVars>>
    /\ UNCHANGED <<kind, adIn, adIn2, bsIn, bsOut, bsOut2, adToBSIters, dim, diy>>

CallLookup ==
    /\ kind = "table" /\ pc = "input"
    /\ dim' = getDaysInBSMonth(bsIn.year, bsIn.month)
    /\ diy' = getDaysInBSYear(bsIn.year)
    /\ pc' = "done"
    /\ UNCHANGED <<textVars, objVars, extVars>>
    /\ UNCHANGED <<kind, adIn, adIn2, bsIn, bsOut, bsOut2, adOut, adToBSIters,
                   bsToADIters>>

CallMobileAdToBS ==
    /\ kind = "mobile" /\ pc = "input"
    /\ bsOut' = Mobile_adToBS(adIn)
    /\ pc' = "done"
    /\ UNCHANGED <<textVars, objVars, extVars>>
    /\ UNCHANGED <<kind, adIn, adIn2, bsIn, bsOut2, adOut, adToBSIters,
                   bsToADIters, dim, diy>>

\* the three calls of a "year" run; both dates are valid, so both walks end
CallYearSpan ==
    /\ kind = "year" /\ pc = "input"
    /\ adOut' = bsToAD(bsIn)
    /\ adOut2' = bsToAD([year |-> bsIn.year + 1, month |-> 1, day |-> 1])
    /\ diy' = getDaysInBSYear(bsIn.year)
    /\ pc' = "done"
    /\ UNCHANGED <<textVars, objVars, appVars>>
    /\ UNCHANGED <<kind, adIn, adIn2, bsIn, bsOut, bsOut2, adToBSIters,
                   bsToADIters, dim>>

Next ==
    \/ CallAdToBS \/ CallAdToBSAgain \/ CallBsToAD \/ CallLookup
    \/ CallMobileAdToBS \/ CallYearSpan

Spec == Init /\ [][Next]_vars

-----------------------------------------------------------------------------
(* Formatter runs: one formatter call per run *)

\* longest string handed to toNepaliDigits
MaxStrLen == 3
\* largest count k of seconds, minutes, hours and days an elapsed time is built of
MaxCount == 61
\* largest count of 30-day months an elapsed time is built of
MaxMonths == 13

\* "0" "1" "5" "9", "-" ":" "a" " ", Devanagari zero and nine
Alphabet == {48, 49, 53, 57, 45, 58, 97, 32, 2406, 2415}

\* the strings, and the String(num) of the numbers, handed to toNepaliDigits
StringInputs ==
    UNION {[1..n -> Alphabet] : n \in 0..MaxStrLen}
        \cup {NumberToString(n) : n \in {0 - 12, 0, 7, 2082, 1234567890}}

FormatStyles == {"full", "short", "long", "undefined"}

\* BSDate values handed to formatBSDate: any month 0..13, any day 1..32
FormatInputs ==
    {[year |-> y, month |-> m, day |-> d] :
        y \in {1, 999, 2080, 2082, 2090, 10000}, m \in 0..13, d \in 1..32}

\* 2025-12-29T12:00:00Z, which is 17:45 of that day in Nepal
DocNow == DocExampleDay + 17 * 3600 + 45 * 60

NowInputs == {DocNow, DateAt(400, 30)}

\* whole seconds between the timestamp and now, around every bucket boundary
PastInputs ==
    {k * u + d : k \in 0..MaxCount, u \in {1, 60, 3600, SecondsPerDay}, d \in {0 - 1, 0, 1}}
        \cup {(k * 30 + d) * SecondsPerDay : k \in 0..MaxMonths, d \in {0 - 1, 0, 1}}

ElapsedInputs == PastInputs \cup {0 - e : e \in PastInputs}

MsInputs == {0, 500}

resultVars == <<bsOut, bsOut2, adOut, adToBSIters, bsToADIters, dim, diy>>

InitNoConversion ==
    /\ adIn = NoDate /\ adIn2 = NoDate
    /\ InitResults /\ InitObjects /\ InitNoExt

\* toNepaliDigits(str)
InitDigits ==
    /\ kind = "digits"
    /\ strIn \in StringInputs
    /\ bsIn = NoBSDate /\ fmtStyle = "undefined" /\ strOut = <<>>
    /\ relDate = NoTimestamp /\ relNow = NoTimestamp

\* formatBSDate(bsDate, format)
InitFormat ==
    /\ kind = "format"
    /\ bsIn \in FormatInputs
    /\ fmtStyle \in FormatStyles
    /\ strIn = <<>> /\ strOut = <<>>
    /\ relDate = NoTimestamp /\ relNow = NoTimestamp

\* getRelativeTimeNepali(date, now)
InitRelative ==
    /\ kind = "relative"
    /\ \E n \in NowInputs, e \in ElapsedInputs, m1 \in MsInputs, m2 \in MsInputs :
          /\ relNow = [time |-> n, ms |-> m1]
          /\ relDate = [time |-> n - e, ms |-> m2]
    /\ bsIn = NoBSDate /\ fmtStyle = "undefined"
    /\ strIn = <<>> /\ strOut = <<>>

\* the mobile copy's formatRelativeTime(date), on the same timestamps
InitMobileRelative ==
    /\ kind = "mobileRelative"
    /\ \E n \in NowInputs, e \in ElapsedInputs, m1 \in MsInputs, m2 \in MsInputs :
          /\ relNow = [time |-> n, ms |-> m1]
          /\ relDate = [time |-> n - e, ms |-> m2]
    /\ bsIn = NoBSDate /\ fmtStyle = "undefined"
    /\ strIn = <<>> /\ strOut = <<>>

\* the web library's getRelativeTimeNepali(date), on the same timestamps
InitWebRelative ==
    /\ kind = "webRelative"
    /\ \E n \in NowInputs, e \in ElapsedInputs, m1 \in MsInputs, m2 \in MsInputs :
          /\ relNow = [time |-> n, ms |-> m1]
          /\ relDate = [time |-> n - e, ms |-> m2]
    /\ bsIn = NoBSDate /\ fmtStyle = "undefined"
    /\ strIn = <<>> /\ strOut = <<>>

InitText ==
    /\ InitNoConversion
    /\ \/ InitDigits \/ InitFormat \/ InitRelative
       \/ InitMobileRelative \/ InitWebRelative

CallToNepaliDigits ==
    /\ kind = "digits" /\ pc = "input"
    /\ strOut' = toNepaliDigits(strIn)
    /\ pc' = "done"
    /\ UNCHANGED <<kind, adIn, adIn2, bsIn, resultVars, objVars, extVars>>
    /\ UNCHANGED <<strIn, fmtStyle, relDate, relNow>>

CallFormatBSDate ==
    /\ kind = "format" /\ pc = "input"
    /\ strOut' = formatBSDate(bsIn, fmtStyle)
    /\ pc' = "done"
    /\ UNCHANGED <<kind, adIn, adIn2, bsIn, resultVars, objVars, extVars>>
    /\ UNCHANGED <<strIn, fmtStyle, relDate, relNow>>

CallGetRelativeTimeNepali ==
    /\ kind = "relative" /\ pc = "input"
    /\ strOut' = getRelativeTimeNepali(relDate, relNow)
    /\ pc' = "done"
    /\ UNCHANGED <<kind, adIn, adIn2, bsIn, resultVars, objVars, extVars>>
    /\ UNCHANGED <<strIn, fmtStyle, relDate, relNow>>

CallMobileFormatRelativeTime ==
    /\ kind = "mobileRelative" /\ pc = "input"
    /\ strOut' = Mobile_formatRelativeTime(relDate, relNow)
    /\ pc' = "done"
    /\ UNCHANGED <<kind, adIn, adIn2, bsIn, resultVars, objVars, extVars>>
    /\ UNCHANGED <<strIn, fmtStyle, relDate, relNow>>

CallWebGetRelativeTimeNepali ==
    /\ kind = "webRelative" /\ pc = "input"
    /\ strOut' = Web_getRelativeTimeNepali(relDate, relNow)
    /\ pc' = "done"
    /\ UNCHANGED <<kind, adIn, adIn2, bsIn, resultVars, objVars, extVars>>
    /\ UNCHANGED <<strIn, fmtStyle, relDate, relNow>>

NextText ==
    \/ CallToNepaliDigits \/ CallFormatBSDate \/ CallGetRelativeTimeNepali
    \/ CallMobileFormatRelativeTime \/ CallWebGetRelativeTimeNepali

SpecText == InitText /\ [][NextText]_vars

-----------------------------------------------------------------------------
(* Call sequences: any operation after any other, over the module-level    *)
(* objects.  The state keeps the last call, its argument and its result.   *)

\* days before and after the anchor the calls of a sequence reach
FrameDays == 20

FrameDates == {DateAt(n, 0) : n \in (0 - FrameDays)..FrameDays}

\* valid BS dates, those of FrameDates
FrameBSDates == {adToBS(d) : d \in FrameDates}

FrameYears == (FirstTableYear - 1)..(FirstTableYear + 1)

\* a variant that moves AD_REFERENCE itself:
\* AD_REFERENCE.setDate(AD_REFERENCE.getDate() + diffDays); return AD_REFERENCE
bsToADEffect_InPlace(reference, diffDays) ==
    [reference |-> SetDatePlus(reference, diffDays),
     result    |-> SetDatePlus(reference, diffDays)]

\* const adDate = new Date(AD_REFERENCE); adDate.setDate(adDate.getDate() +
\* diffDays); return adDate: setDate acts on the new Date object, and the
\* object AD_REFERENCE names is left as it is
bsToADEffect(reference, diffDays) ==
    [reference |-> reference,
     result    |-> SetDatePlus(reference, diffDays)]

InitObjectsRun ==
    /\ kind = "none"
    /\ adIn = NoDate /\ adIn2 = NoDate /\ bsIn = NoBSDate
    /\ InitCommon

\* the record of the last call; what it does not name is cleared
LastCall(op, ad, bs, style, outBs, outAd, outDays, outStr) ==
    /\ kind' = op /\ pc' = "done"
    /\ adIn' = ad /\ adIn2' = NoDate /\ bsIn' = bs /\ fmtStyle' = style
    /\ bsOut' = outBs /\ bsOut2' = NoBSDate /\ adOut' = outAd
    /\ adToBSIters' = 0 /\ bsToADIters' = 0
    /\ dim' = outDays /\ diy' = 0
    /\ strIn' = <<>> /\ strOut' = outStr
    /\ relDate' = NoTimestamp /\ relNow' = NoTimestamp
    /\ UNCHANGED extVars

\* adToBS reads AD_REFERENCE.getTime() and copies BS_REFERENCE's three numbers
\* into its own variables
AnyAdToBS ==
    /\ \E d \in FrameDates :
          LastCall("adToBS", d, NoBSDate, "undefined", adToBS(d), NoDate, 0, <<>>)
    /\ UNCHANGED objVars

AnyBsToAD ==
    /\ \E b \in FrameBSDates :
          \E e \in {bsToADEffect(adReference, bsToADRun(b).diffDays)} :
              /\ LastCall("bsToAD", NoDate, b, "undefined", NoBSDate, e.result, 0, <<>>)
              /\ adReference' = e.reference
    /\ UNCHANGED <<calendarData, bsReference>>

\* BS_CALENDAR_DATA[year], then yearData[month - 1]
AnyGetDaysInBSMonth ==
    /\ \E y \in FrameYears, m \in 0..13 :
          LastCall("getDaysInBSMonth", NoDate, [year |-> y, month |-> m, day |-> 1],
                   "undefined", NoBSDate, NoDate, getDaysInBSMonth(y, m), <<>>)
    /\ UNCHANGED objVars

\* BS_CALENDAR_DATA[year].reduce(...), which builds a number and writes nothing
AnyGetDaysInBSYear ==
    /\ \E y \in FrameYears :
          LastCall("getDaysInBSYear", NoDate, [year |-> y, month |-> 1, day |-> 1],
                   "undefined", NoBSDate, NoDate, getDaysInBSYear(y), <<>>)
    /\ UNCHANGED objVars

AnyFormatBSDate ==
    /\ \E b \in FrameBSDates, style \in FormatStyles :
          LastCall("formatBSDate", NoDate, b, style, NoBSDate, NoDate, 0,
                   formatBSDate(b, style))
    /\ UNCHANGED objVars

\* getRelativeTimeNepali of a later timestamp, which calls adToBS and formatBSDate
AnyGetRelativeTimeNepali ==
    /\ \E d \in FrameDates :
          LastCall("getRelativeTimeNepali", d, NoBSDate, "undefined", NoBSDate,
                   NoDate, 0,
                   getRelativeTimeNepali([time |-> d, ms |-> 0],
                                         [time |-> d - 1, ms |-> 0]))
    /\ UNCHANGED objVars

NextObjects ==
    \/ AnyAdToBS \/ AnyBsToAD \/ AnyGetDaysInBSMonth \/ AnyGetDaysInBSYear
    \/ AnyFormatBSDate \/ AnyGetRelativeTimeNepali

SpecObjects == InitObjectsRun /\ [][NextObjects]_vars

-----------------------------------------------------------------------------
(* The copies side by side: one Date converted by two of them *)

\* the first day after BS 2085, the last year the mobile table has
MobileEndOffset == DaysInYears(BS_REFERENCE.year, 2085 + 1)

CopyOffsets == DayOffsets \cup (MaxFwdDays..(MobileEndOffset + FarWindow))

CopyInputs == {DateAt(n, t) : n \in CopyOffsets, t \in TimesOfDay}

\* the package's adToBS and the mobile copy's, the latter over the package's
\* table and anchor
InitAlgorithms ==
    /\ kind = "algorithms"
    /\ adIn \in CopyInputs
    /\ adIn2 = NoDate /\ bsIn = NoBSDate

\* the web library's adToBS and the mobile copy's, each over its own table
InitCopies ==
    /\ kind = "copies"
    /\ adIn \in CopyInputs
    /\ adIn2 = NoDate /\ bsIn = NoBSDate

InitSideBySide == InitCommon /\ (InitAlgorithms \/ InitCopies)

CallBothAlgorithms ==
    /\ kind = "algorithms" /\ pc = "input"
    /\ bsOut' = adToBS(adIn)
    /\ bsOut2' = Mobile_adToBSIn(BS_CALENDAR_DATA, BS_REFERENCE, AD_REFERENCE, adIn)
    /\ pc' = "done"
    /\ UNCHANGED <<textVars, objVars, extVars>>
    /\ UNCHANGED <<kind, adIn, adIn2, bsIn, adOut, adToBSIters, bsToADIters, dim, diy>>

CallBothCopies ==
    /\ kind = "copies" /\ pc = "input"
    /\ bsOut' = Web_adToBS(adIn)
    /\ bsOut2' = Mobile_adToBS(adIn)
    /\ pc' = "done"
    /\ UNCHANGED <<textVars, objVars, extVars>>
    /\ UNCHANGED <<kind, adIn, adIn2, bsIn, adOut, adToBSIters, bsToADIters, dim, diy>>

NextSideBySide == CallBothAlgorithms \/ CallBothCopies

SpecSideBySide == InitSideBySide /\ [][NextSideBySide]_vars

-----------------------------------------------------------------------------
(* Appwrite calls: any call after any other *)

\* what initializeConfig is called with
PartialConfigs ==
    [endpoint : {Absent, Undefined, "https://appwrite.example/v1"},
     projectId : {Absent, Undefined, "", "hamronepal"}]

InitAppwrite ==
    /\ kind = "none"
    /\ adIn = NoDate /\ adIn2 = NoDate /\ bsIn = NoBSDate
    /\ InitCommon

\* what no Appwrite call touches
appwriteFrame ==
    <<pc, adIn, adIn2, bsIn, resultVars, textVars, objVars, adOut2, viewVars,
      authVars>>

CallInitializeConfig ==
    /\ \E config \in PartialConfigs :
          /\ currentConfig' = initializeConfig(config)
          /\ projectSet' = (projectSet \/ ~Falsy(initializeConfig(config).projectId))
    /\ kind' = "initializeConfig"
    /\ lastOutcome' = "ok"
    /\ UNCHANGED <<instances, appwriteFrame>>

CallGetConfig ==
    /\ kind' = "getConfig"
    /\ lastOutcome' = getConfig(currentConfig)
    /\ UNCHANGED <<currentConfig, instances, projectSet, appwriteFrame>>

CallGetClient ==
    /\ \E r \in {getClient(currentConfig, instances)} :
          /\ instances' = r.instances
          /\ lastOutcome' = r.outcome
    /\ kind' = "getClient"
    /\ UNCHANGED <<currentConfig, projectSet, appwriteFrame>>

CallGetService ==
    /\ \E name \in ServiceNames :
          \E r \in {getService(name, currentConfig, instances)} :
              /\ instances' = r.instances
              /\ lastOutcome' = r.outcome
              /\ kind' = name
    /\ UNCHANGED <<currentConfig, projectSet, appwriteFrame>>

\* resetClient(): all six set to null
CallResetClient ==
    /\ instances' = NoInstances
    /\ kind' = "resetClient"
    /\ lastOutcome' = "ok"
    /\ UNCHANGED <<currentConfig, projectSet, appwriteFrame>>

NextAppwrite ==
    \/ CallInitializeConfig \/ CallGetConfig \/ CallGetClient \/ CallGetService
    \/ CallResetClient

SpecAppwrite == InitAppwrite /\ [][NextAppwrite]_vars

-----------------------------------------------------------------------------
(* incrementViewCount calls on one article, their awaited steps in any order *)

InitViews ==
    /\ kind = "views"
    /\ adIn = NoDate /\ adIn2 = NoDate /\ bsIn = NoBSDate
    /\ InitResults /\ InitNoText /\ InitObjects
    /\ adOut2 = NoDate /\ InitConfig /\ InitNoAuth
    /\ viewCount \in 0..MaxViews
    /\ initialViewCount = viewCount
    /\ viewCalls = [i \in ViewCallIds |-> IdleViewCall]

viewFrame ==
    <<kind, pc, adIn, adIn2, bsIn, resultVars, textVars, objVars, adOut2, configVars,
      authVars>>

\* the call is made: getConfig(), getDatabases(), and getArticleById is awaited
CallIncrementViewCount(i) ==
    /\ viewCalls[i].pc = "idle"
    /\ viewCalls' = [viewCalls EXCEPT ![i].pc = "getArticleById"]
    /\ UNCHANGED <<viewCount, initialViewCount, viewFrame>>

\* const article = await getArticleById(id); updateDocument is sent
ArticleRead(i) ==
    /\ viewCalls[i].pc = "getArticleById"
    /\ viewCalls' = [viewCalls EXCEPT ![i] =
                        [pc |-> "updateDocument", article |-> [viewCount |-> viewCount]]]
    /\ UNCHANGED <<viewCount, initialViewCount, viewFrame>>

\* the database applies the update and the call returns
DocumentUpdated(i) ==
    /\ viewCalls[i].pc = "updateDocument"
    /\ viewCount' = incrementedDocument([viewCount |-> viewCount],
                                        viewCalls[i].article).viewCount
    /\ viewCalls' = [viewCalls EXCEPT ![i].pc = "done"]
    /\ UNCHANGED <<initialViewCount, viewFrame>>

NextViews ==
    \E i \in ViewCallIds :
        \/ CallIncrementViewCount(i)
        \/ ArticleRead(i)
        \/ DocumentUpdated(i)

SpecViews == InitViews /\ [][NextViews]_vars

-----------------------------------------------------------------------------
(* AuthProvider: login, logout and refreshAuth calls, their awaited service *)
(* calls completing in any order                                            *)

\* after the first render and its effect: initAuth has called refreshAuth,
\* which awaits getCurrentUser
InitAuth ==
    /\ kind = "auth"
    /\ adIn = NoDate /\ adIn2 = NoDate /\ bsIn = NoBSDate
    /\ InitResults /\ InitNoText /\ InitObjects
    /\ adOut2 = NoDate /\ InitConfig /\ InitNoViews
    /\ user = Null
    /\ author = Null
    /\ isLoading = TRUE
    /\ session \in BOOLEAN
    /\ authorExists \in BOOLEAN
    /\ authCalls = [i \in AuthCallIds |->
                       IF i = 1 THEN [op |-> "initAuth", pc |-> "getCurrentUser"]
                       ELSE IdleAuthCall]

authFrame ==
    <<kind, pc, adIn, adIn2, bsIn, resultVars, textVars, objVars, adOut2, configVars,
      viewVars>>

\* the call has returned or thrown; initAuth goes on to setIsLoading(false)
\* (refreshAuth never throws)
Finished(i) ==
    /\ authCalls' = [authCalls EXCEPT ![i].pc = "done"]
    /\ isLoading' = IF authCalls[i].op = "initAuth" THEN FALSE ELSE isLoading

\* login(credentials) is called: authLogin awaits createEmailPasswordSession
CallLogin(i) ==
    /\ authCalls[i].pc = "idle"
    /\ authCalls' = [authCalls EXCEPT ![i] =
                        [op |-> "login", pc |-> "createEmailPasswordSession"]]
    /\ UNCHANGED <<user, author, isLoading, session, authorExists, authFrame>>

\* logout() is called: authLogout awaits deleteSession("current")
CallLogout(i) ==
    /\ authCalls[i].pc = "idle"
    /\ authCalls' = [authCalls EXCEPT ![i] = [op |-> "logout", pc |-> "deleteSession"]]
    /\ UNCHANGED <<user, author, isLoading, session, authorExists, authFrame>>

\* refreshAuth() is called: it awaits getCurrentUser
CallRefreshAuth(i) ==
    /\ authCalls[i].pc = "idle"
    /\ authCalls' = [authCalls EXCEPT ![i] =
                        [op |-> "refreshAuth", pc |-> "getCurrentUser"]]
    /\ UNCHANGED <<user, author, isLoading, session, authorExists, authFrame>>

\* createEmailPasswordSession answers: a session now exists and authLogin
\* awaits getCurrentUser, or it throws and login rejects
SessionCreated(i) ==
    /\ authCalls[i].pc = "createEmailPasswordSession"
    /\ \E accepted \in BOOLEAN :
          IF accepted
          THEN /\ session' = TRUE
               /\ authCalls' = [authCalls EXCEPT ![i].pc = "getCurrentUser"]
          ELSE /\ session' = session
               /\ authCalls' = [authCalls EXCEPT ![i].pc = "done"]
    /\ UNCHANGED <<user, author, isLoading, authorExists, authFrame>>

\* getCurrentUser answers.  login: authLogin throws on null, else
\* setUser(loggedInUser) and getAuthorProfile is awaited.  refreshAuth: with
\* a user setUser(currentUser) and getAuthorProfile is awaited, else
\* setUser(null); setAuthor(null)
CurrentUserResolved(i) ==
    /\ authCalls[i].pc = "getCurrentUser"
    /\ \E currentUser \in getCurrentUser(session) :
          IF currentUser # Null
          THEN /\ user' = currentUser
               /\ authCalls' = [authCalls EXCEPT ![i].pc = "getAuthorProfile"]
               /\ UNCHANGED <<author, isLoading>>
          ELSE IF authCalls[i].op = "login"
          THEN /\ authCalls' = [authCalls EXCEPT ![i].pc = "done"]
               /\ UNCHANGED <<user, author, isLoading>>
          ELSE /\ user' = Null
               /\ author' = Null
               /\ Finished(i)
    /\ UNCHANGED <<session, authorExists, authFrame>>

\* getAuthorProfile answers: setAuthor(authorProfile)
AuthorProfileResolved(i) ==
    /\ authCalls[i].pc = "getAuthorProfile"
    /\ \E authorProfile \in getAuthorProfile(authorExists) :
          author' = authorProfile
    /\ Finished(i)
    /\ UNCHANGED <<user, session, authorExists, authFrame>>

\* deleteSession("current") answers: the session is gone and logout does
\* setUser(null); setAuthor(null), or it throws and logout rejects
SessionDeleted(i) ==
    /\ authCalls[i].pc = "deleteSession"
    /\ \E deleted \in (IF session THEN BOOLEAN ELSE {FALSE}) :
          IF deleted
          THEN /\ session' = FALSE
               /\ user' = Null
               /\ author' = Null
          ELSE UNCHANGED <<session, user, author>>
    /\ authCalls' = [authCalls EXCEPT ![i].pc = "done"]
    /\ UNCHANGED <<isLoading, authorExists, authFrame>>

NextAuth ==
    \E i \in AuthCallIds :
        \/ CallLogin(i)
        \/ CallLogout(i)
        \/ CallRefreshAuth(i)
        \/ SessionCreated(i)
        \/ CurrentUserResolved(i)
        \/ AuthorProfileResolved(i)
        \/ SessionDeleted(i)

SpecAuth == InitAuth /\ [][NextAuth]_vars

-----------------------------------------------------------------------------
(* Properties *)

ValidBSDate(d) ==
    /\ d.month \in 1..12
    /\ 1 <= d.day
    /\ d.day <= getDaysInBSMonth(d.year, d.month)

\* lexicographic (year, month, day) order
BSLess(a, b) ==
    \/ a.year < b.year
    \/ a.year = b.year /\ a.month < b.month
    \/ a.year = b.year /\ a.month = b.month /\ a.day < b.day

SameCalendarDay(d1, d2) == CalendarDay(d1) = CalendarDay(d2)

\* N, the number of table years
TableSpan == Cardinality(TableYears)

\* at most N years before or after the anchor: from N years before it up to
\* the day N years after it
WithinSpanOfAnchor(d) ==
    /\ d.year >= BS_REFERENCE.year - TableSpan
    /\ ~BSLess([BS_REFERENCE EXCEPT !.year = @ + TableSpan], d)

\* C1: for every AD day whose BS image lies in a table year,
\* bsToAD(adToBS(d)) is the same calendar day as d.
C1_RoundTripADBSAD ==
    (kind = "ad" /\ pc \in {"done", "looping"} /\ bsOut.year \in TableYears)
        => (pc = "done" /\ SameCalendarDay(adOut, adIn))

C1_Witness ==
    /\ kind = "ad" /\ pc = "done"
    /\ bsOut.year = LastTableYear /\ bsOut.month = 12
    /\ adIn # adOut /\ SameCalendarDay(adOut, adIn)

\* C2: for every valid BS date at most N years before or after the anchor
\* (N = number of table years), non-table years before the anchor included,
\* adToBS(bsToAD(d)) = d.
C2_RoundTripBSADBS ==
    (kind = "bs" /\ pc # "input" /\ ValidBSDate(bsIn) /\ WithinSpanOfAnchor(bsIn))
        => (pc # "looping" /\ (pc = "done" => bsOut = bsIn))

C2_Witness ==
    /\ kind = "bs" /\ pc = "done"
    /\ ValidBSDate(bsIn) /\ WithinSpanOfAnchor(bsIn)
    /\ bsIn.year < BS_REFERENCE.year /\ bsIn.year \notin TableYears
    /\ bsOut = bsIn

\* C3: adToBS is strictly monotone on calendar days: for Dates a < b,
\* adToBS(a) <= adToBS(b) lexicographically, equal only when a and b are the
\* same calendar day; before, after and across the anchor.
C3_Monotone ==
    (kind = "pair" /\ pc = "done")
        => /\ adIn < adIn2
           /\ ~BSLess(bsOut2, bsOut)
           /\ (bsOut = bsOut2 => SameCalendarDay(adIn, adIn2))

C3_Witness ==
    /\ kind = "pair" /\ pc = "done"
    /\ adIn < AD_REFERENCE /\ adIn2 >= AD_REFERENCE
    /\ ~SameCalendarDay(adIn, adIn2)
    /\ BSLess(bsOut, bsOut2)

\* C4: every BS date adToBS returns (package copy and mobile copy, inputs
\* before and after the anchor, table and non-table years) has month in
\* 1..12 and 1 <= day <= getDaysInBSMonth(year, month).
C4_ResultInRange ==
    /\ (kind \in {"ad", "pair", "bs"} /\ bsOut # NoBSDate) => ValidBSDate(bsOut)
    /\ (kind = "pair" /\ pc = "done") => ValidBSDate(bsOut2)
    /\ (kind = "mobile" /\ pc = "done")
          => /\ bsOut.month \in 1..12
             /\ 1 <= bsOut.day
             /\ bsOut.day <= Mobile_getDaysInBSMonth(bsOut.year, bsOut.month)

C4_Witness ==
    /\ kind = "ad" /\ pc = "converted"
    /\ adIn < AD_REFERENCE
    /\ bsOut.year \notin TableYears
    /\ bsOut.day = getDaysInBSMonth(bsOut.year, bsOut.month)

\* C5: the anchor is a fixed point both ways: adToBS(AD_REFERENCE), which is
\* 2023-04-14, is BS_REFERENCE = (2080, 1, 1), and bsToAD(BS_REFERENCE) is
\* AD_REFERENCE, each with zero loop iterations.
C5_AnchorFixedPoint ==
    /\ CalendarDay(AD_REFERENCE) = [year |-> 2023, month |-> 4, day |-> 14]
    /\ BS_REFERENCE = [year |-> 2080, month |-> 1, day |-> 1]
    /\ (kind = "ad" /\ adIn = AD_REFERENCE /\ pc # "input")
          => (bsOut = BS_REFERENCE /\ adToBSIters = 0)
    /\ (kind = "bs" /\ bsIn = BS_REFERENCE /\ pc # "input")
          => (pc # "looping" /\ adOut = AD_REFERENCE /\ bsToADIters = 0)
    /\ (kind = "ad" /\ adIn = AD_REFERENCE /\ pc = "done")
          => (adOut = AD_REFERENCE /\ bsToADIters = 0)

C5_Witness ==
    /\ kind = "bs" /\ bsIn = BS_REFERENCE /\ pc = "done"
    /\ adOut = AD_REFERENCE /\ bsOut = BS_REFERENCE

\* C6: adToBS of the AD date 2025-12-29, day offset 990 from the anchor,
\* returns the BS date (2082, 9, 14).
C6_DocExample ==
    (/\ kind = "ad" /\ pc # "input"
     /\ CalendarDay(adIn) = [year |-> 2025, month |-> 12, day |-> 29])
        => /\ DiffDays(adIn) = 990
           /\ bsOut = [year |-> 2082, month |-> 9, day |-> 14]

C6_Witness ==
    /\ kind = "ad" /\ pc = "converted"
    /\ adIn = DocExampleDay
    /\ bsOut = [year |-> 2082, month |-> 9, day |-> 14]

\* C7: for every table year y and month m in 1..12, getDaysInBSMonth(y, m) is
\* the m-th entry of y's row and getDaysInBSYear(y) is the sum of the twelve
\* entries of the row.
C7_TableConformance ==
    (/\ kind = "table" /\ pc = "done"
     /\ bsIn.year \in TableYears /\ bsIn.month \in 1..12)
        => LET row == BS_CALENDAR_DATA[bsIn.year]
           IN  /\ dim = row[bsIn.month]
               /\ diy = row[1] + row[2] + row[3] + row[4] + row[5] + row[6]
                          + row[7] + row[8] + row[9] + row[10] + row[11] + row[12]

C7_Witness ==
    /\ kind = "table" /\ pc = "done"
    /\ bsIn.year = 2080 /\ bsIn.month = 2
    /\ dim = 32 /\ diy = 366

\* C8: for a year without a table row, getDaysInBSMonth(year, m), m in 1..12,
\* is the m-th element of [31,31,32,31,31,31,30,29,30,29,30,30] and
\* getDaysInBSYear(year) is 365; conversions through such years complete.
C8_FallbackPattern ==
    /\ (/\ kind = "table" /\ pc = "done"
        /\ bsIn.year \notin TableYears /\ bsIn.month \in 1..12)
          => /\ dim = <<31, 31, 32, 31, 31, 31, 30, 29, 30, 29, 30, 30>>[bsIn.month]
             /\ diy = 365
    /\ (/\ kind = "ad" /\ pc \in {"done", "looping"}
        /\ bsOut.year \notin TableYears)
          => (pc = "done" /\ ValidBSDate(bsOut) /\ SameCalendarDay(adOut, adIn))
    /\ (/\ kind = "bs" /\ pc # "input"
        /\ bsIn.year \notin TableYears /\ ValidBSDate(bsIn))
          => pc # "looping"

C8_Witness ==
    /\ kind = "table" /\ pc = "done"
    /\ bsIn.year = LastTableYear + 1 /\ bsIn.month = 3
    /\ dim = 32 /\ diy = 365

\* C9: adToBS ignores the time of day: two timestamps on the same calendar
\* day, before or after the anchor, give the same day offset and BS date.
C9_TimeOfDayIgnored ==
    (kind = "pair" /\ pc = "done" /\ SameCalendarDay(adIn, adIn2))
        => (DiffDays(adIn) = DiffDays(adIn2) /\ bsOut = bsOut2)

C9_Witness ==
    /\ kind = "pair" /\ pc = "done"
    /\ adIn2 = adIn + (SecondsPerDay - 1)
    /\ SameCalendarDay(adIn, adIn2)
    /\ adIn2 < AD_REFERENCE
    /\ bsOut = bsOut2

\* C10: bsToAD terminates for every caller-supplied BSDate (any year, month in
\* 1..12, day in 1..31), a day beyond the month's length included.
C10_BsToADTerminates ==
    (kind = "bs" /\ pc # "input") => pc # "looping"


-----------------------------------------------------------------------------
(* Properties of the formatters *)

\* C11: toNepaliDigits maps every ASCII digit 0-9 to the glyph at that index of
\* NEPALI_DIGITS and leaves every other character (sign, separator, letter,
\* Devanagari digit) as it is, at the same position; the output has the
\* input's length
C11_DigitsLocalised ==
    (kind = "digits" /\ pc = "done") =>
        /\ Len(strOut) = Len(strIn)
        /\ \A i \in 1..Len(strIn) :
              IF strIn[i] \in 48..57
              THEN strOut[i] = NEPALI_DIGITS[strIn[i] - 47]
              ELSE strOut[i] = strIn[i]

\* "-90" followed by a Devanagari zero becomes "-", Devanagari 9, 0, 0
C11_Witness ==
    /\ kind = "digits" /\ pc = "done"
    /\ strIn = <<45, 57, 2406>>
    /\ strOut = <<45, 2415, 2406>>

RECURSIVE SplitOn(_, _)
\* str.split(sep) for a one-unit separator
SplitOn(str, sep) ==
    IF \E i \in 1..Len(str) : str[i] = sep
    THEN LET first == CHOOSE i \in 1..Len(str) :
                          str[i] = sep /\ \A j \in 1..(i - 1) : str[j] # sep
         IN  <<SubSeq(str, 1, first - 1)>>
                 \o SplitOn(SubSeq(str, first + 1, Len(str)), sep)
    ELSE <<str>>

\* every Devanagari digit replaced by the ASCII digit of its value
FromNepaliDigits(str) ==
    [i \in 1..Len(str) |->
        IF str[i] \in 2406..2415 THEN str[i] - 2406 + 48 ELSE str[i]]

RECURSIVE DecimalValue(_)
DecimalValue(str) ==
    IF Len(str) = 0
    THEN 0
    ELSE DecimalValue(SubSeq(str, 1, Len(str) - 1)) * 10 + (str[Len(str)] - 48)

\* the number an all-ASCII-digit string denotes, NaN for any other string
ParseDecimal(str) ==
    IF Len(str) = 0 \/ \E i \in 1..Len(str) : str[i] \notin 48..57
    THEN NaN
    ELSE DecimalValue(str)

\* C12: for every BS date with month 1..12 and day 1..32, splitting
\* formatBSDate(date, "short") on "-" and mapping the Nepali digits back gives
\* (year, month, day), and the month and day fields are two digits long
C12_ShortRoundTrip ==
    (kind = "format" /\ pc = "done" /\ fmtStyle = "short"
        /\ bsIn.month \in 1..12 /\ bsIn.day \in 1..32) =>
        LET parts == SplitOn(strOut, 45)
        IN  /\ Len(parts) = 3
            /\ ParseDecimal(FromNepaliDigits(parts[1])) = bsIn.year
            /\ ParseDecimal(FromNepaliDigits(parts[2])) = bsIn.month
            /\ ParseDecimal(FromNepaliDigits(parts[3])) = bsIn.day
            /\ Len(parts[2]) = 2
            /\ Len(parts[3]) = 2

\* the documented example: (2082, 9, 14) in the short layout, month padded
C12_Witness ==
    /\ kind = "format" /\ pc = "done" /\ fmtStyle = "short"
    /\ bsIn = [year |-> 2082, month |-> 9, day |-> 14]
    /\ strOut = <<2408, 2406, 2414, 2408, 45, 2406, 2415, 45, 2407, 2410>>

\* the Devanagari numeral of a natural number
NepaliNumeral(n) ==
    [i \in 1..Len(DecimalDigits(n)) |-> DecimalDigits(n)[i] + (2406 - 48)]

\* the two-digit Devanagari numeral of a number below 100
TwoDigitNumeral(n) == <<2406 + (n \div 10), 2406 + (n % 10)>>

\* C13: formatBSDate gives "<day> <monthName> <year>" for full,
\* "<monthName> <day>, <year>" for long and "<year>-<MM>-<DD>" for short,
\* numbers in Nepali digits, monthName the entry month - 1 of the twelve month
\* names; an omitted format behaves as full
C13_FormatLayouts ==
    (kind = "format" /\ pc = "done" /\ bsIn.month \in 1..12) =>
        strOut =
            IF fmtStyle = "short"
            THEN NepaliNumeral(bsIn.year) \o <<45>> \o TwoDigitNumeral(bsIn.month)
                     \o <<45>> \o TwoDigitNumeral(bsIn.day)
            ELSE IF fmtStyle = "long"
                 THEN BS_MONTHS[bsIn.month] \o <<32>> \o NepaliNumeral(bsIn.day)
                          \o <<44, 32>> \o NepaliNumeral(bsIn.year)
                 ELSE NepaliNumeral(bsIn.day) \o <<32>> \o BS_MONTHS[bsIn.month]
                          \o <<32>> \o NepaliNumeral(bsIn.year)

\* the documented example with the format omitted: 14 Push 2082
C13_Witness ==
    /\ kind = "format" /\ pc = "done" /\ fmtStyle = "undefined"
    /\ bsIn = [year |-> 2082, month |-> 9, day |-> 14]
    /\ strOut = <<2407, 2410, 32, 2346, 2369, 2359, 32, 2408, 2406, 2414, 2408>>

\* the timestamp is strictly later than now
TimestampLater(date, now) ==
    \/ date.time > now.time
    \/ date.time = now.time /\ date.ms > now.ms

\* one of the fixed phrases, or a string that ends in " aghi" ("ago")
IsRelativePhrase(str) ==
    \/ str \in {JUST_NOW, YESTERDAY, LAST_WEEK, LAST_MONTH}
    \/ /\ Len(str) >= 4
       /\ SubSeq(str, Len(str) - 3, Len(str)) = <<32, 2309, 2328, 2367>>

\* C14: for a timestamp strictly later than now, getRelativeTimeNepali returns
\* formatBSDate(adToBS(timestamp), full), never a relative phrase
C14_FutureIsAbsolute ==
    (kind = "relative" /\ pc = "done" /\ TimestampLater(relDate, relNow)) =>
        /\ strOut = formatBSDate(adToBS(relDate.time), "full")
        /\ ~IsRelativePhrase(strOut)

\* half a second after 2025-12-29T12:00:00Z: the BS date of that day
C14_Witness ==
    /\ kind = "relative" /\ pc = "done"
    /\ relNow = [time |-> DocNow, ms |-> 0]
    /\ relDate = [time |-> DocNow, ms |-> 500]
    /\ strOut = <<2407, 2410, 32, 2346, 2369, 2359, 32, 2408, 2406, 2414, 2408>>

\* the ordered bucket list, on the whole seconds s elapsed since the date
BucketPhrase(date, s) ==
    LET days == s \div SecondsPerDay
    IN  IF s < 60 THEN JUST_NOW
        ELSE IF s < 60 * 60 THEN NepaliNumeral(s \div 60) \o MINUTES_AGO
        ELSE IF s < 24 * 60 * 60 THEN NepaliNumeral(s \div (60 * 60)) \o HOURS_AGO
        ELSE IF days = 1 THEN YESTERDAY
        ELSE IF days < 7 THEN NepaliNumeral(days) \o DAYS_AGO
        ELSE IF days \div 7 = 1 THEN LAST_WEEK
        ELSE IF days \div 7 < 4 THEN NepaliNumeral(days \div 7) \o WEEKS_AGO
        ELSE IF days \div 30 = 1 THEN LAST_MONTH
        ELSE IF days \div 30 < 12 THEN NepaliNumeral(days \div 30) \o MONTHS_AGO
        ELSE formatBSDate(adToBS(date), "full")

\* C15: for a timestamp not later than now, getRelativeTimeNepali returns the
\* first matching entry of the ordered list: under 60 s just now, under 60 min
\* N minutes ago, under 24 h N hours ago, 1 day yesterday, under 7 days N days
\* ago, 1 week last week, under 4 weeks N weeks ago, 1 30-day month last month,
\* under 12 months N months ago, otherwise the full BS date; N is the floor
C15_BucketList ==
    (kind = "relative" /\ pc = "done" /\ ~TimestampLater(relDate, relNow)) =>
        strOut = BucketPhrase(relDate.time, DiffSecs(relDate, relNow))

\* two hours before 2025-12-29T12:00:00Z: "2 hours ago"
C15_Witness ==
    /\ kind = "relative" /\ pc = "done"
    /\ relNow = [time |-> DocNow, ms |-> 0]
    /\ relDate = [time |-> DocNow - 2 * 60 * 60, ms |-> 0]
    /\ strOut = <<2408>> \o HOURS_AGO

\* now = 2025-12-29T12:00:00Z, timestamp = 2025-12-20T12:00:00Z, call made
NineDaysEarlier ==
    /\ kind = "relative" /\ pc = "done"
    /\ relNow = [time |-> DocNow, ms |-> 0]
    /\ relDate = [time |-> DocNow - 9 * SecondsPerDay, ms |-> 0]

\* C16 as stated: with now = 2025-12-29T12:00:00Z, the timestamp
\* 2025-12-20T12:00:00Z (9 days earlier) gives "9 days ago" in Nepali digits
C16_NineDaysAgo == NineDaysEarlier => strOut = <<2415>> \o DAYS_AGO

\* C16 amended: with now = 2025-12-29T12:00:00Z, the timestamp
\* 2025-12-20T12:00:00Z (9 days earlier) gives the fixed phrase "last week":
\* 9 days is not fewer than 7, and floor(9 / 7) = 1
C16_NineDaysIsLastWeek == NineDaysEarlier => strOut = LAST_WEEK

C16_Witness == NineDaysEarlier /\ strOut = LAST_WEEK

-----------------------------------------------------------------------------
(* Further properties of the converters *)

\* bsToAD({ year: 2082, month: 9, day: 14 }) has returned
BsDocExample ==
    /\ kind = "bs" /\ pc \in {"converted", "done"}
    /\ bsIn = [year |-> 2082, month |-> 9, day |-> 14]

C18_ObjectsUnchanged ==
    /\ calendarData = BS_CALENDAR_DATA
    /\ bsReference = BS_REFERENCE
    /\ adReference = AD_REFERENCE

\* bsToAD has returned a Date ten days after the anchor, and AD_REFERENCE is
\* still the anchor
C18_Witness ==
    /\ kind = "bsToAD" /\ pc = "done"
    /\ bsIn = [year |-> 2080, month |-> 1, day |-> 11]
    /\ adOut = DateAt(10, 0)
    /\ adReference = NewDate(2023, 3, 14)

RECURSIVE SuccessorTimes(_, _)
\* the body of bsToAD's forward loop, the one-day successor, applied n times
\* to a date s (whose day, as every date's, is at least 1)
SuccessorTimes(s, n) ==
    IF n = 0 \/ s.day < 1 THEN s
    ELSE IF n = 1 THEN bsToADForwardBody(s)
    ELSE SuccessorTimes(SuccessorTimes(s, n \div 2), n - n \div 2)

\* C19: for every n >= 0, adToBS's month-skipping forward loop returns for the
\* day n days after the anchor the BS date that n applications of bsToAD's
\* one-day successor step reach from the anchor
C19_SkipEqualsWalk ==
    (kind = "ad" /\ pc = "converted" /\ DiffDays(adIn) >= 0) =>
        bsOut = ToBSDate(SuccessorTimes(
                    [year |-> BS_REFERENCE.year, month |-> BS_REFERENCE.month,
                     day |-> BS_REFERENCE.day, diffDays |-> 0],
                    DiffDays(adIn)))

\* 700 days after the anchor: the month loop has skipped more than a year
C19_Witness ==
    /\ kind = "ad" /\ pc = "converted"
    /\ DiffDays(adIn) = 700
    /\ adToBSIters >= 12
    /\ bsOut.year = BS_REFERENCE.year + 1

\* the BS date after d: the next day of the month, or day 1 of the next month,
\* month 1 of the next year after month 12
NextBSDay(d) ==
    IF d.day < getDaysInBSMonth(d.year, d.month)
    THEN [year |-> d.year, month |-> d.month, day |-> d.day + 1]
    ELSE IF d.month = 12
         THEN [year |-> d.year + 1, month |-> 1, day |-> 1]
         ELSE [year |-> d.year, month |-> d.month + 1, day |-> 1]

\* C20: consecutive AD days map to consecutive BS dates, before, after and
\* across the anchor: adToBS(d + 1 day) is the BS date after adToBS(d)
C20_ConsecutiveDays ==
    (kind = "pair" /\ pc = "done" /\ adIn2 = adIn + SecondsPerDay) =>
        bsOut2 = NextBSDay(bsOut)

\* across the anchor: the day before it is 2079-12-30, the next is 2080-01-01
C20_Witness ==
    /\ kind = "pair" /\ pc = "done"
    /\ DiffDays(adIn) = 0 - 1
    /\ adIn2 = adIn + SecondsPerDay
    /\ bsOut = [year |-> 2079, month |-> 12, day |-> 30]
    /\ bsOut2 = BS_REFERENCE

\* the twelve month lengths getDaysInBSMonth gives for a year, added up
MonthLengthsSum(year) ==
    SumSeq([m \in 1..12 |-> getDaysInBSMonth(year, m)], 12)

\* C21: for every year y, table or not, the AD days between bsToAD((y, 1, 1))
\* and bsToAD((y + 1, 1, 1)) are getDaysInBSYear(y) many, and the twelve month
\* lengths of y add up to it (365 for a year outside the table)
C21_YearSpan ==
    (kind = "year" /\ pc = "done") =>
        /\ adOut2 - adOut = diy * SecondsPerDay
        /\ MonthLengthsSum(bsIn.year) = diy
        /\ bsIn.year \notin TableYears => diy = 365

\* a year outside the table, after the table's end: 365 days from 2092-01-01
\* to 2093-01-01
C21_Witness ==
    /\ kind = "year" /\ pc = "done"
    /\ bsIn.year = 2092
    /\ diy = 365
    /\ adOut2 = adOut + 365 * SecondsPerDay

\* C22: getDaysInBSMonth has one policy for a month outside 1..12: it returns
\* 30, for table years and for years outside the table alike, so its result
\* is a positive integer for every (year, month)
C22_MonthOutOfRange ==
    (kind = "table" /\ pc = "done") =>
        /\ dim \in Nat /\ dim > 0
        /\ bsIn.month \notin 1..12 => dim = 30

\* month 13 of the table year 2082
C22_Witness ==
    /\ kind = "table" /\ pc = "done"
    /\ bsIn.year = 2082 /\ bsIn.month = 13
    /\ dim = 30

-----------------------------------------------------------------------------
(* Properties of the copies *)

\* C23: the mobile copy's adToBS (offset added to the day, then normalised by
\* month lengths) and the package's adToBS (month-skipping forward, day by day
\* backward) return the same BS date for every positive, zero and negative day
\* offset when both use the same month-length table and anchor
C23_SameAlgorithmResult ==
    (kind = "algorithms" /\ pc = "done") => bsOut2 = bsOut

\* a day before the anchor, in a year outside the table, both loops having
\* walked back over a year boundary
C23_Witness ==
    /\ kind = "algorithms" /\ pc = "done"
    /\ DiffDays(adIn) = 0 - 40
    /\ bsOut.year = BS_REFERENCE.year - 1
    /\ bsOut2 = bsOut

\* C24: the web library's adToBS and the mobile copy's adToBS, each with its
\* own month-length table and the shared anchor, return the same BS date for
\* every AD day from the anchor to the end of BS 2085
C24_CopiesAgree ==
    (kind = "copies" /\ pc = "done"
        /\ DiffDays(adIn) >= 0 /\ DiffDays(adIn) < MobileEndOffset) =>
        bsOut2 = bsOut

-----------------------------------------------------------------------------
(* Further properties of the relative-time formatters *)

\* str is a numeral followed by the unit
EndsWith(str, unit) ==
    /\ Len(str) > Len(unit)
    /\ SubSeq(str, Len(str) - Len(unit) + 1, Len(str)) = unit

\* str is the numeral of a count in the range, followed by the unit
CountWithin(str, unit, range) ==
    \E n \in range : str = NepaliNumeral(n) \o unit

\* C25: whenever getRelativeTimeNepali returns a counted phrase, for an elapsed
\* time >= 0, the count is not zero and lies in the range of its bucket:
\* minutes 1..59, hours 1..23, days 2..6, weeks 2..3, months 2..11
C25_CountInBucketRange ==
    (kind = "relative" /\ pc = "done" /\ ~TimestampLater(relDate, relNow)) =>
        /\ EndsWith(strOut, MINUTES_AGO) => CountWithin(strOut, MINUTES_AGO, 1..59)
        /\ EndsWith(strOut, HOURS_AGO) => CountWithin(strOut, HOURS_AGO, 1..23)
        /\ EndsWith(strOut, DAYS_AGO) => CountWithin(strOut, DAYS_AGO, 2..6)
        /\ EndsWith(strOut, WEEKS_AGO) => CountWithin(strOut, WEEKS_AGO, 2..3)
        /\ EndsWith(strOut, MONTHS_AGO) => CountWithin(strOut, MONTHS_AGO, 2..11)

\* C26: the mobile formatRelativeTime and the web library's
\* getRelativeTimeNepali return, for a timestamp later than now, the absolute
\* BS date formatBSDate(adToBS(timestamp)) of their copy, and neither their
\* "just now" phrase nor an "N ... ago" phrase
C26_CopiesFutureIsAbsolute ==
    /\ (kind = "mobileRelative" /\ pc = "done" /\ TimestampLater(relDate, relNow)) =>
          /\ strOut = Mobile_formatBSDate(Mobile_adToBS(relDate.time))
          /\ strOut # Mobile_NOW
          /\ ~IsRelativePhrase(strOut)
    /\ (kind = "webRelative" /\ pc = "done" /\ TimestampLater(relDate, relNow)) =>
          /\ strOut = Web_formatBSDate(Web_adToBS(relDate.time), "undefined")
          /\ ~IsRelativePhrase(strOut)

-----------------------------------------------------------------------------
(* Properties of the Appwrite package *)

\* the last call was getConfig or one of the six getters
LastWasGetter == kind \in ({"getConfig", "getClient"} \cup ServiceNames)

\* C27: while no non-empty projectId has been set through initializeConfig,
\* getConfig and every client getter fail with the "Appwrite not configured"
\* error and all cached instances stay null; a getter called while a projectId
\* is set succeeds
C27_NotConfigured ==
    /\ ~projectSet =>
          /\ instances = NoInstances
          /\ LastWasGetter => lastOutcome = NotConfigured
    /\ (LastWasGetter /\ ~Falsy(currentConfig.projectId)) =>
          /\ lastOutcome = "ok"
          /\ kind = "getClient" => instances.client # Null
          /\ kind \in ServiceNames =>
                instances[kind] # Null /\ instances.client # Null

\* initializeConfig has been called with an endpoint only, and getDatabases
\* has failed after it
C27_Witness ==
    /\ ~projectSet
    /\ currentConfig.endpoint = "https://appwrite.example/v1"
    /\ kind = "databases"
    /\ lastOutcome = NotConfigured
    /\ instances = NoInstances

-----------------------------------------------------------------------------
(* Properties of incrementViewCount *)

CompletedViewCalls == {i \in ViewCallIds : viewCalls[i].pc = "done"}

\* C28: once the incrementViewCount calls made on an article have all
\* completed, in whatever order their reads and writes were served, its
\* viewCount is the initial value plus the number of calls
C28_EveryCallCounted ==
    (/\ CompletedViewCalls # {}
     /\ \A i \in ViewCallIds : viewCalls[i].pc \in {"idle", "done"})
        => viewCount = initialViewCount + Cardinality(CompletedViewCalls)

-----------------------------------------------------------------------------
(* Properties of the AuthProvider *)

\* C29: in every reachable state of the AuthProvider, whatever the order in
\* which the service calls awaited by login, logout and refreshAuth complete,
\* author is non-null only if user is non-null
C29_AuthorOnlyWithUser == author # Null => user # Null

=============================================================================
